---- MODULE Spec2Model ----
(***************************************************************************)
(* A model of glutin's window backends:                                    *)
(*   - api/cocoa/mod.rs: the event iterators, NSEventToEvent, the modifier *)
(*     statics and Window::new;                                            *)
(*   - api/win32/{mod,init}.rs: Window::new, new_window, init and the      *)
(*     worker thread's message loop;                                       *)
(*   - platform/linux/api_dispatch.rs: the lazily initialised BACKEND.     *)
(* One process runs one platform; Init chooses it and every action is      *)
(* guarded by it.                                                          *)
(***************************************************************************)
EXTENDS Integers, Sequences, FiniteSets, TLC

\* ------------------------------------------------------------------ bounds
\* Native events posted to the NSApplication queue in one behaviour.
MaxNative == 2
\* Characters carried by one native key-down.
MaxChars == 2

Windows == {1, 2}

VARIABLES
    platform,       \* "macos" | "windows" | "linux"
    phase,          \* "new": a window is being constructed; "run": it exists
    nsqueue,        \* NSApp's native event queue (cocoa)
    posted,         \* number of native events posted so far (their ids)
    pending_events, \* DelegateState.pending_events, per window
    statics,        \* shift_pressed, ctrl_pressed, win_pressed, alt_pressed
    snapshot,       \* history: the modifier flags of the last translated NSFlagsChanged
    last,           \* history: the last completed next() call
    delivered,      \* history: the events next() returned, per window
    waiting,        \* the window in whose wait_events next() the thread is blocked, or 0
    \* window construction
    request,        \* the arguments of the Window::new call
    caller,         \* the calling thread: "idle" | "recv" | "returned" | "panicked"
    worker,         \* the spawned thread: "none" | "init" | "send" | "loop" | "done" | "panicked"
    built,          \* what init (win32) or Window::new (cocoa) came to
    oneshot,        \* the channel of new_window: the values sent and not yet received
    sent,           \* history: the number of sends on that channel
    returned,       \* what Window::new returned to the caller
    answers,        \* history: what the native calls of the construction answered
    \* the linux backend selector
    once,           \* lazy_static's Once: "Incomplete" | "Running" | "Complete"
    BACKEND,        \* the value of the static
    attempts,       \* history: the number of XConnection::new calls
    x11_windows,    \* history: the number of x11::Window::new calls
    thread,         \* per thread: where it is, the call it makes and its result
    calls,          \* number of calls started
    observed,       \* history: the values callers read through *BACKEND
    \* owned handles (cocoa)
    idrefs,         \* per handle: its IdRef wrappers and the messages sent to it
    \* the win32 window at run time
    msgqueue,       \* the message queue of the thread that created the window
    w32posted,      \* number of messages posted so far (their ids)
    events_receiver,\* the events channel: events sent and not yet received
    fetched,        \* history: the messages GetMessageW returned
    dispatched,     \* history: the messages given to DispatchMessageW
    window_life,    \* the Window value: "alive" | "dropped"
    drops,          \* history: the calls made by the drop of the Window
    receiving,      \* a thread is blocked in recv() of wait_events
    w32last,        \* history: the last completed next() call (win32)
    \* the cursor
    window_state,   \* WindowState: cursor, cursor_state, attributes
    mutex,          \* the Mutex around it: the thread that holds it, poisoned or not
    cthread,        \* per thread: where it is in set_cursor / set_cursor_state
    ops,            \* number of cursor calls started
    under_lock,     \* history: the native calls made with the mutex held
    attached,       \* AttachThreadInput(.., 1) calls not undone
    nscursor,       \* the current NSCursor (cocoa)
    \* the current context
    thread_current, \* per thread: the context current on it (0 for none)
    made,           \* history: per thread, the context last made current by make_current
    gllast,         \* history: the last GlContext call
    glcalls,        \* number of GlContext calls made
    \* the threads that share a Window
    in_next,        \* per thread: the window in whose next() it fetches a native event, or 0
    pumped,         \* history: per window, the threads that fetched native events for it
    \* the X error callback
    latest_error,   \* XConnection.latest_error: 0 for None, or the code of the error stored
    xlast           \* history: the last x_error_callback call, and how many were made

cocoaVars == <<nsqueue, posted, pending_events, statics, snapshot, last, delivered, waiting>>
newVars == <<request, caller, worker, built, oneshot, sent, returned, answers>>
linuxVars == <<once, BACKEND, attempts, x11_windows, thread, calls, observed>>
pumpVars == <<msgqueue, w32posted, events_receiver, fetched, dispatched, window_life, drops,
              receiving, w32last>>
cursorVars == <<window_state, mutex, cthread, ops, under_lock, attached, nscursor>>
glVars == <<thread_current, made, gllast, glcalls>>
shareVars == <<in_next, pumped>>
errVars == <<latest_error, xlast>>
moreVars == <<glVars, shareVars, errVars>>
extraVars == <<idrefs, pumpVars, cursorVars, moreVars>>
vars == <<platform, phase, cocoaVars, newVars, linuxVars, extraVars>>

\* ------------------------------------------------------- logical events
\* Option<Event>::None.
None == [tag |-> "None"]

\* Every logical event carries `src`, the id of the native event whose
\* translation or dispatch generated it, and `idx`, its rank among the events
\* translated from that native event (0 for an event no translation made: a
\* delegate callback's, or the Awakened that wait_events puts in place of None).
\* Both are history information: no operation reads them.
KeyboardInput(state, key, src, idx) ==
    [tag |-> "KeyboardInput", state |-> state, key |-> key, src |-> src, idx |-> idx]
ReceivedCharacter(c, src, idx) ==
    [tag |-> "ReceivedCharacter", ch |-> c, src |-> src, idx |-> idx]
MouseInput(state, src) ==
    [tag |-> "MouseInput", state |-> state, src |-> src, idx |-> 1]
MouseWheel(delta, touch, src) ==
    [tag |-> "MouseWheel", delta |-> delta, phase |-> touch, src |-> src, idx |-> 1]
Focused(b, src) == [tag |-> "Focused", focused |-> b, src |-> src, idx |-> 0]
Closed(src) == [tag |-> "Closed", src |-> src, idx |-> 0]
Awakened(src, idx) == [tag |-> "Awakened", src |-> src, idx |-> idx]

\* The rank is assigned by position in the VecDeque `events` of one translation.
RECURSIVE Ranked(_, _)
Ranked(evs, from) ==
    IF evs = <<>> THEN <<>>
    ELSE <<[Head(evs) EXCEPT !.idx = from]>> \o Ranked(Tail(evs), from + 1)

\* ------------------------------------------------------- native events
ModifierMasks == {"NSShiftKeyMask", "NSControlKeyMask", "NSCommandKeyMask", "NSAlternateKeyMask"}

\* `cb` is what dispatching the event with NSApp().sendEvent_ makes AppKit
\* call on the delegate of the event's window.
\* `precise` and `gesture` are hasPreciseScrollingDeltas and phase, which
\* the translation reads of a scroll event.
NSEvent(type, flags, nchars, subtype, cb, win) ==
    [type |-> type, flags |-> flags, nchars |-> nchars, subtype |-> subtype,
     cb |-> cb, win |-> win, id |-> 0, precise |-> FALSE, gesture |-> "NSEventPhaseNone"]

\* The native events the window server may post (ids are given when posted).
\* `win` is the window the event is addressed to, kept where the model reads
\* it (the delegate that sendEvent_ calls); 0 elsewhere.
ServerEvents ==
    {NSEvent("NSLeftMouseDown", {}, 0, "none", cb, w) :
        cb \in {"none", "windowShouldClose"}, w \in Windows}
    \cup {NSEvent("NSKeyDown", {}, n, "none", "none", 0) : n \in 0..MaxChars}
    \cup {NSEvent("NSFlagsChanged", f, 0, "none", "none", 0) : f \in SUBSET ModifierMasks}
    \cup {NSEvent("NSAppKitDefined", {}, 0, "none", cb, w) :
        cb \in {"windowDidBecomeKey", "windowDidResignKey"}, w \in Windows}
    \cup {NSEvent("NSAppKitDefined", {}, 0, "none", "none", 0)}
    \cup {NSEvent("NSApplicationDefined", {}, 0, "NSWindowExposedEventType", "none", 0)}

\* The values of NSEvent::phase the model tries.
GesturePhases ==
    {"NSEventPhaseNone", "NSEventPhaseMayBegin", "NSEventPhaseBegan",
     "NSEventPhaseChanged", "NSEventPhaseEnded", "NSEventPhaseCancelled"}

\* The scroll events a mouse wheel or a trackpad may post.
ScrollEvents ==
    {[NSEvent("NSScrollWheel", {}, 0, "none", "none", 0)
        EXCEPT !.precise = p, !.gesture = g] : p \in BOOLEAN, g \in GesturePhases}

\* nil, the absent native event.
nil == NSEvent("nil", {}, 0, "none", "none", 0)

\* thread_local WAKEUP_EVENT: application defined, window number 0.
WAKEUP_EVENT ==
    NSEvent("NSApplicationDefined", {}, 0, "NSApplicationActivatedEventType", "none", 0)

\* ---------------------------------------------------------- translation
\* A faulty variant of modifier_event: it reports the absolute state and
\* ignores whether the key was already pressed.
modifier_event_repeat(event, keymask, key, key_pressed) ==
    IF keymask \in event.flags
    THEN KeyboardInput("Pressed", key, event.id, 0)
    ELSE IF key_pressed
         THEN KeyboardInput("Released", key, event.id, 0)
         ELSE None

\* Window::modifier_event.
modifier_event(event, keymask, key, key_pressed) ==
    IF ~key_pressed /\ keymask \in event.flags
    THEN KeyboardInput("Pressed", key, event.id, 0)
    ELSE IF key_pressed /\ keymask \notin event.flags
         THEN KeyboardInput("Released", key, event.id, 0)
         ELSE None

\* A faulty variant of touch_phase: an event without phase information is
\* taken for the start of a gesture.
touch_phase_started(gesture) ==
    IF gesture \in {"NSEventPhaseMayBegin", "NSEventPhaseBegan", "NSEventPhaseNone"}
    THEN "Started"
    ELSE IF gesture = "NSEventPhaseEnded" THEN "Ended" ELSE "Moved"

\* The TouchPhase of a scroll event, from nsevent.phase().
touch_phase(gesture) ==
    IF gesture \in {"NSEventPhaseMayBegin", "NSEventPhaseBegan"} THEN "Started"
    ELSE IF gesture = "NSEventPhaseEnded" THEN "Ended"
    ELSE "Moved"

\* The MouseScrollDelta of a scroll event, from hasPreciseScrollingDeltas.
scroll_delta(nsevent) == IF nsevent.precise THEN "PixelDelta" ELSE "LineDelta"

\* An Option<Event> pushed onto `events` when it is Some.
PushSome(opt) == IF opt = None THEN <<>> ELSE <<opt>>

\* A faulty variant of DelegateEvents: window_should_close pushes two events.
DelegateEventsClosedTwice(nsevent) ==
    CASE nsevent.cb = "windowShouldClose" -> <<Closed(nsevent.id), Closed(nsevent.id)>>
      [] nsevent.cb = "windowDidBecomeKey" -> <<Focused(TRUE, nsevent.id)>>
      [] nsevent.cb = "windowDidResignKey" -> <<Focused(FALSE, nsevent.id)>>
      [] OTHER -> <<>>

\* The delegate callbacks: each pushes one event onto the target's queue.
DelegateEvents(nsevent) ==
    CASE nsevent.cb = "windowShouldClose" -> <<Closed(nsevent.id)>>
      [] nsevent.cb = "windowDidBecomeKey" -> <<Focused(TRUE, nsevent.id)>>
      [] nsevent.cb = "windowDidResignKey" -> <<Focused(FALSE, nsevent.id)>>
      [] OTHER -> <<>>

\* NSApp().sendEvent_(nsevent): the delegate of the event's window is called.
sendEvent_(pend, nsevent) ==
    IF nsevent.win \in Windows
    THEN [pend EXCEPT ![nsevent.win] = @ \o DelegateEvents(nsevent)]
    ELSE pend

\* A faulty variant of Characters: only the first character is pushed.
CharactersFirstOnly(n, from, src) ==
    IF from > n THEN <<>> ELSE <<ReceivedCharacter(from, src, 0)>>

RECURSIVE Characters(_, _, _)
Characters(n, from, src) ==
    IF from > n THEN <<>>
    ELSE <<ReceivedCharacter(from, src, 0)>> \o Characters(n, from + 1, src)

\* A faulty variant of SplitEvents: pop_back in place of pop_front.
SplitEventsLastFirst(window, pend, events) ==
    [event |-> IF events = <<>> THEN None ELSE events[Len(events)],
     pending |-> IF events = <<>> THEN pend
                 ELSE [pend EXCEPT ![window] = @ \o SubSeq(events, 1, Len(events) - 1)]]

\* What is done with the VecDeque `events` of a key-down or flags-changed
\* translation: the first is returned and the rest extend the window's queue.
SplitEvents(window, pend, events) ==
    [event |-> IF events = <<>> THEN None ELSE Head(events),
     pending |-> IF events = <<>> THEN pend
                 ELSE [pend EXCEPT ![window] = @ \o Tail(events)]]

\* NSEventToEvent(window, nsevent) on the queues `pend` and the statics `st`:
\* the returned Option<Event>, the queues and statics afterwards, and (history)
\* the events this translation generated, in generation order.
NSEventToEvent(window, nsevent, pend, st) ==
    IF nsevent = nil
    THEN [event |-> None, pending |-> pend, statics |-> st, emitted |-> <<>>]
    ELSE
    LET pend1 == IF nsevent.type \in {"NSKeyDown", "NSApplicationDefined"}
                 THEN pend ELSE sendEvent_(pend, nsevent)
        One(e) == [event |-> e, pending |-> pend1, statics |-> st,
                   emitted |-> PushSome(e)]
    IN  CASE nsevent.type = "NSLeftMouseDown" ->
               One(MouseInput("Pressed", nsevent.id))
          [] nsevent.type = "NSKeyDown" ->
               LET events == Ranked(Characters(nsevent.nchars, 1, nsevent.id)
                                 \o <<KeyboardInput("Pressed", "vkey", nsevent.id, 0)>>, 1)
                   s == SplitEvents(window, pend1, events)
               IN  [event |-> s.event, pending |-> s.pending, statics |-> st,
                    emitted |-> events]
          [] nsevent.type = "NSFlagsChanged" ->
               LET shift_modifier == modifier_event(nsevent, "NSShiftKeyMask", "LShift", st.shift_pressed)
                   ctrl_modifier == modifier_event(nsevent, "NSControlKeyMask", "LControl", st.ctrl_pressed)
                   win_modifier == modifier_event(nsevent, "NSCommandKeyMask", "LWin", st.win_pressed)
                   alt_modifier == modifier_event(nsevent, "NSAlternateKeyMask", "LAlt", st.alt_pressed)
                   events == Ranked(PushSome(shift_modifier) \o PushSome(ctrl_modifier)
                                 \o PushSome(win_modifier) \o PushSome(alt_modifier), 1)
                   s == SplitEvents(window, pend1, events)
               IN  [event |-> s.event, pending |-> s.pending,
                    statics |->
                      [shift_pressed |-> IF shift_modifier # None THEN ~st.shift_pressed
                                         ELSE st.shift_pressed,
                       ctrl_pressed |-> IF ctrl_modifier # None THEN ~st.ctrl_pressed
                                        ELSE st.ctrl_pressed,
                       win_pressed |-> IF win_modifier # None THEN ~st.win_pressed
                                       ELSE st.win_pressed,
                       alt_pressed |-> IF alt_modifier # None THEN ~st.alt_pressed
                                       ELSE st.alt_pressed],
                    emitted |-> events]
          [] nsevent.type = "NSScrollWheel" ->
               One(MouseWheel(scroll_delta(nsevent), touch_phase(nsevent.gesture),
                              nsevent.id))
          [] nsevent.type = "NSApplicationDefined" ->
               IF nsevent.subtype = "NSApplicationActivatedEventType"
               THEN One(Awakened(nsevent.id, 1))
               ELSE One(None)
          [] OTHER -> One(None)

\* A native event other than a proxy's wakeup event is in the queue.
RealEventIn(queue) ==
    \E i \in 1..Len(queue) :
        ~(queue[i].type = WAKEUP_EVENT.type /\ queue[i].subtype = WAKEUP_EVENT.subtype)

\* ------------------------------------------------------------- the state
NoCall ==
    [kind |-> "none", window |-> 0, queued |-> <<>>, sourceEmpty |-> TRUE,
     nsevent |-> nil, snapshot |-> {}, before |-> [shift_pressed |-> FALSE, ctrl_pressed |-> FALSE,
                                  win_pressed |-> FALSE, alt_pressed |-> FALSE],
     emitted |-> <<>>, result |-> None, realLeft |-> FALSE, blocked |-> FALSE]

CocoaInit ==
    /\ nsqueue = <<>>
    /\ posted = 0
    /\ pending_events = [w \in Windows |-> <<>>]
    /\ statics = [shift_pressed |-> FALSE, ctrl_pressed |-> FALSE,
                  win_pressed |-> FALSE, alt_pressed |-> FALSE]
    /\ snapshot = {}
    /\ last = NoCall
    /\ delivered = [w \in Windows |-> <<>>]
    /\ waiting = 0


\* ----------------------------------------------------- the event source
\* The window server posts a native event.
PostNative(e) ==
    /\ platform = "macos" /\ phase = "run"
    /\ posted < MaxNative
    /\ posted' = posted + 1
    /\ nsqueue' = Append(nsqueue, [e EXCEPT !.id = posted + 1])
    /\ UNCHANGED <<platform, phase, pending_events, statics, snapshot, last, delivered,
                   waiting>>
    /\ UNCHANGED <<newVars, linuxVars, extraVars>>

\* A mouse wheel or a trackpad scrolls: the window server posts the event.
PostScroll(e) ==
    /\ platform = "macos" /\ phase = "scroll"
    /\ posted < MaxNative
    /\ posted' = posted + 1
    /\ nsqueue' = Append(nsqueue, [e EXCEPT !.id = posted + 1])
    /\ UNCHANGED <<platform, phase, pending_events, statics, snapshot, last, delivered,
                   waiting>>
    /\ UNCHANGED <<newVars, linuxVars, extraVars>>

\* WindowProxy::wakeup_event_loop: postEvent_atStart_(WAKEUP_EVENT, NO).
wakeup_event_loop ==
    /\ platform = "macos" /\ phase = "run"
    /\ posted < MaxNative
    /\ posted' = posted + 1
    /\ nsqueue' = Append(nsqueue, [WAKEUP_EVENT EXCEPT !.id = posted + 1])
    /\ UNCHANGED <<platform, phase, pending_events, statics, snapshot, last, delivered,
                   waiting>>
    /\ UNCHANGED <<newVars, linuxVars, extraVars>>

\* nextEventMatchingMask_untilDate_inMode_dequeue_ returns at once with
\* distantPast, and only with an event with distantFuture.
\* The untilDate each iterator passes.
PollUntilDate == "distantPast"
WaitUntilDate == "distantFuture"

\* A faulty variant of nextEventReturns: the mask leaves application-defined
\* events out, so a wakeup event does not end the wait.
nextEventSkipsWakeup(untilDate) == RealEventIn(nsqueue) \/ untilDate = "distantPast"

nextEventReturns(untilDate) == nsqueue # <<>> \/ untilDate = "distantPast"

\* What each iterator makes of the translated event: poll_events returns it,
\* wait_events returns Awakened in place of None.
PollResult(event) == event
WaitResult(event) == IF event = None THEN Awakened(0, 0) ELSE event

\* The body shared by the two iterators' next(): the queued event if there is
\* one, else one native event fetched and translated.
IteratorNext(kind, window, untilDate) ==
    IF pending_events[window] # <<>>
    THEN LET ev == Head(pending_events[window]) IN
         /\ pending_events' = [pending_events EXCEPT ![window] = Tail(@)]
         /\ delivered' = [delivered EXCEPT ![window] = Append(@, ev)]
         /\ last' = [kind |-> kind, window |-> window, queued |-> pending_events[window],
                     sourceEmpty |-> nsqueue = <<>>, nsevent |-> nil,
                     snapshot |-> snapshot, before |-> statics,
                     emitted |-> <<>>, result |-> ev, realLeft |-> RealEventIn(nsqueue),
                     blocked |-> FALSE]
         /\ UNCHANGED <<nsqueue, statics, snapshot>>
    ELSE /\ nextEventReturns(untilDate)
         /\ LET nsevent == IF nsqueue = <<>> THEN nil ELSE Head(nsqueue)
                t == NSEventToEvent(window, nsevent, pending_events, statics)
                result == IF kind = "wait" THEN WaitResult(t.event)
                          ELSE PollResult(t.event)
            IN  /\ nsqueue' = IF nsqueue = <<>> THEN nsqueue ELSE Tail(nsqueue)
                /\ pending_events' = t.pending
                /\ statics' = t.statics
                /\ snapshot' = IF nsevent.type = "NSFlagsChanged" THEN nsevent.flags
                               ELSE snapshot
                /\ delivered' = IF result = None THEN delivered
                                ELSE [delivered EXCEPT ![window] = Append(@, result)]
                /\ last' = [kind |-> kind, window |-> window, queued |-> <<>>,
                            sourceEmpty |-> nsqueue = <<>>, nsevent |-> nsevent,
                            snapshot |-> snapshot, before |-> statics,
                            emitted |-> t.emitted, result |-> result,
                            realLeft |-> nsqueue # <<>> /\ RealEventIn(Tail(nsqueue)),
                            blocked |-> waiting = window]

\* PollEventsIterator::next (cocoa).
PollNext(window) ==
    /\ platform = "macos" /\ phase \in {"run", "scroll"}
    /\ waiting = 0
    /\ IteratorNext("poll", window, PollUntilDate)
    /\ waiting' = waiting
    /\ UNCHANGED <<platform, phase, posted, newVars, linuxVars, extraVars>>

\* WaitEventsIterator::next finds the window's queue and the native queue
\* empty: the thread stays in nextEventMatchingMask (distantFuture).  AppKit's
\* events are fetched by one thread, so no other next() runs meanwhile.  (Only
\* waits that an event can still end are followed.)
WaitBlock(window) ==
    /\ platform = "macos" /\ phase \in {"run", "scroll"}
    /\ waiting = 0
    /\ posted < MaxNative
    /\ pending_events[window] = <<>>
    /\ ~nextEventReturns(WaitUntilDate)
    /\ waiting' = window
    /\ UNCHANGED <<platform, phase, nsqueue, posted, pending_events, statics, snapshot,
                   last, delivered, newVars, linuxVars, extraVars>>

\* WaitEventsIterator::next (cocoa), from its call or from where it blocked.
WaitNext(window) ==
    /\ platform = "macos" /\ phase \in {"run", "scroll"}
    /\ waiting \in {0, window}
    /\ IteratorNext("wait", window, WaitUntilDate)
    /\ waiting' = 0
    /\ UNCHANGED <<platform, phase, posted, newVars, linuxVars, extraVars>>

\* ------------------------------------------------- window construction
Ok(w) == [tag |-> "Ok", value |-> w]
Err(e) == [tag |-> "Err", value |-> e]
NoResult == [tag |-> "none", value |-> "none"]

RobustnessModes == {"NotRobust", "RobustNoResetNotification", "RobustLoseContextOnReset"}

\* WindowAttributes::dimensions: None (the empty tuple) or Some((width, height)).
Dimensions == {<<>>, <<640, 480>>}

\* The arguments of Window::new the model reads: the variant of the context of
\* the window to share with, whether a specific OpenGL ES version is asked
\* for, whether an EGL library is supplied, the robustness, whether a monitor
\* is given, whether minimum and maximum dimensions are set, and the
\* dimensions.
WinRequests ==
    [sharing : {"None", "Wgl", "Egl"}, version : {"Latest", "SpecificGles"},
     egl : BOOLEAN, robustness : RobustnessModes, monitor : BOOLEAN,
     min_dimensions : BOOLEAN, max_dimensions : BOOLEAN, dimensions : Dimensions]

CocoaRequests ==
    [sharing : {"None", "Cocoa"}, version : {"Latest"},
     egl : {FALSE}, robustness : RobustnessModes, monitor : BOOLEAN,
     min_dimensions : BOOLEAN, max_dimensions : BOOLEAN, dimensions : Dimensions]

DefaultRequest ==
    [sharing |-> "None", version |-> "Latest", egl |-> FALSE,
     robustness |-> "NotRobust", monitor |-> FALSE,
     min_dimensions |-> FALSE, max_dimensions |-> FALSE, dimensions |-> <<>>]

\* What the native calls of one construction answer: whether the display mode
\* change, the window creation and the device context succeed, whether the EGL
\* context is created and finished, and what WglContext::new returns.
WinOutcomes(req) ==
    [cds : IF req.monitor THEN BOOLEAN ELSE {TRUE}, window : BOOLEAN, dc : BOOLEAN,
     egl : IF req.version = "SpecificGles" /\ req.egl THEN BOOLEAN ELSE {FALSE},
     wgl : {"Ok", "OsError"}
           \cup (IF req.robustness = "NotRobust" THEN {} ELSE {"RobustnessNotSupported"})]

\* What a construction came to: Ok, Err or Panic, the window or the error, the
\* native calls made, in order, what became of the native window and of the
\* display mode, the size the window was created with and the display mode
\* asked for (empty when there is none).
Built(outcome, value, ncalls, hwnd, display) ==
    [outcome |-> outcome, value |-> value, calls |-> ncalls, hwnd |-> hwnd,
     display |-> display, size |-> <<>>, mode |-> <<>>]
NotBuilt == Built("none", "none", <<>>, "none", "unchanged")

\* WglContext::new(&pf_reqs, &opengl, real_window.0): api/wgl answers.
WglContextNew(req, nat) == nat.wgl

\* What init does once the context is created: the window is brought to the
\* foreground when fullscreen, and CONTEXT_STASH is filled so that the
\* callback delivers the window's events.
after_context(req) ==
    (IF req.monitor THEN <<"SetForegroundWindow">> ELSE <<>>) \o <<"CONTEXT_STASH">>

\* A faulty variant of wgl_context: the result of WglContext::new is not
\* checked.
wgl_context_unchecked(req, nat, c1, display) ==
    Built("Ok", "Wgl", c1 \o <<"WglContext::new">> \o after_context(req), "alive", display)

\* try!(WglContext::new(..).map(Context::Wgl)) and what follows it.
wgl_context(req, nat, c1, display) ==
    IF WglContextNew(req, nat) = "Ok"
    THEN Built("Ok", "Wgl", c1 \o <<"WglContext::new">> \o after_context(req),
               "alive", display)
    ELSE Built("Err", WglContextNew(req, nat),
               c1 \o <<"WglContext::new", "DestroyWindow">>, "destroyed", display)

\* init, from the creation of the context on: real_window is wrapped, and is
\* destroyed by its drop when init returns early or unwinds.
init_context(req, nat, c, display) ==
    IF req.version = "SpecificGles"
    THEN IF req.egl
         THEN IF req.sharing # "None"
              THEN \* map_sharing(|_| unimplemented!())
                   Built("Panic", "not yet implemented", c \o <<"DestroyWindow">>,
                         "destroyed", display)
              ELSE IF nat.egl
                   THEN Built("Ok", "Egl",
                              c \o <<"EglContext::new">> \o after_context(req),
                              "alive", display)
                   ELSE wgl_context(req, nat, c \o <<"EglContext::new">>, display)
         ELSE wgl_context(req, nat, c, display)
    ELSE wgl_context(req, nat, c, display)

\* CW_USEDEFAULT (0x80000000 as an int): the system chooses.
CW_USEDEFAULT == -2147483647 - 1

\* The RECT init builds: window.dimensions.unwrap_or((1024, 768)).
window_rect(req) == IF req.dimensions = <<>> THEN <<1024, 768>> ELSE req.dimensions

\* The width and height given to CreateWindowExW (before the adjustment for
\* the style): those of the RECT with a monitor or with dimensions.
created_size(req) ==
    IF req.monitor \/ req.dimensions # <<>> THEN window_rect(req)
    ELSE <<CW_USEDEFAULT, CW_USEDEFAULT>>

\* init(title, window, pf_reqs, opengl, egl).
init(req, nat) ==
    LET b ==
    IF req.sharing = "Egl"
    THEN \* map_sharing: RawContext::Egl => unimplemented!()
         Built("Panic", "not yet implemented", <<>>, "none", "unchanged")
    ELSE
    LET c0 == <<"RegisterClassExW">>
    IN  IF req.monitor /\ ~nat.cds
        THEN Built("Err", "OsError: ChangeDisplaySettings failed",
                   c0 \o <<"ChangeDisplaySettingsExW">>, "none", "unchanged")
        ELSE
        LET c1 == c0 \o (IF req.monitor THEN <<"ChangeDisplaySettingsExW">> ELSE <<>>)
                     \o <<"AdjustWindowRectEx", "CreateWindowExW">>
            display == IF req.monitor THEN "changed" ELSE "unchanged"
        IN  IF ~nat.window
            THEN Built("Err", "OsError: CreateWindowEx function failed", c1, "none", display)
            ELSE IF ~nat.dc
            THEN Built("Err", "OsError: GetDC function failed", c1 \o <<"GetDC">>,
                       "alive", display)
            ELSE init_context(req, nat, c1 \o <<"GetDC">>, display)
    IN  [b EXCEPT !.size = IF b.hwnd = "none" THEN <<>> ELSE created_size(req),
                  !.mode = IF \E i \in 1..Len(b.calls) :
                                  b.calls[i] = "ChangeDisplaySettingsExW"
                           THEN window_rect(req) ELSE <<>>]

\* Window::new (win32): the sharing window's context is mapped to a raw
\* context, which is not implemented for an EGL one, and new_window spawns the
\* thread and waits on the channel.
Win32WindowNew(req) ==
    /\ platform = "windows" /\ phase = "new"
    /\ caller = "idle"
    /\ request' = req
    /\ IF req.sharing = "Egl"
       THEN caller' = "panicked" /\ worker' = worker
       ELSE caller' = "recv" /\ worker' = "init"
    /\ UNCHANGED <<platform, phase, built, oneshot, sent, returned, answers, cocoaVars, linuxVars, extraVars>>

\* The spawned thread runs init.
WorkerInit(nat) ==
    /\ platform = "windows" /\ phase = "new"
    /\ worker = "init"
    /\ built' = init(request, nat)
    /\ worker' = IF built'.outcome = "Panic" THEN "panicked" ELSE "send"
    /\ answers' = nat
    /\ UNCHANGED <<platform, phase, request, caller, oneshot, sent, returned,
                   cocoaVars, linuxVars, extraVars>>

\* The spawned thread sends what init returned, then enters the message loop
\* (Ok) or returns (Err).
WorkerSend ==
    /\ platform = "windows" /\ phase = "new"
    /\ worker = "send"
    /\ oneshot' = Append(oneshot, [tag |-> built.outcome, value |-> built.value])
    /\ sent' = sent + 1
    /\ worker' = IF built.outcome = "Ok" THEN "loop" ELSE "done"
    /\ UNCHANGED <<platform, phase, request, caller, built, returned, answers,
                   cocoaVars, linuxVars, extraVars>>

\* rx.recv().unwrap(): the value sent, or a panic once the sender is gone
\* with nothing sent.
CallerRecv ==
    /\ platform = "windows" /\ phase = "new"
    /\ caller = "recv"
    /\ IF oneshot # <<>>
       THEN /\ returned' = Head(oneshot)
            /\ oneshot' = Tail(oneshot)
            /\ caller' = "returned"
       ELSE /\ worker \in {"panicked", "done"}
            /\ caller' = "panicked"
            /\ UNCHANGED <<returned, oneshot>>
    /\ UNCHANGED <<platform, phase, request, worker, built, sent, answers, cocoaVars, linuxVars, extraVars>>

\* What the native calls of one cocoa construction answer.
CocoaOutcomes ==
    [app : BOOLEAN, window : BOOLEAN, view : BOOLEAN, pixelformat : BOOLEAN,
     context : BOOLEAN]

\* Window::create_context.
create_context(req, nat) ==
    IF ~nat.pixelformat THEN Err("NoAvailablePixelFormat")
    ELSE IF ~nat.context THEN Err("NotSupported")
    ELSE Ok("NSOpenGLContext")

\* NSScreen::frame of the monitor given.
ScreenFrame == <<1440, 900>>

\* The frame create_window gives the NSWindow: the screen's with a monitor,
\* else attrs.dimensions.unwrap_or((800, 600)).
create_window_frame(req) ==
    IF req.monitor THEN ScreenFrame
    ELSE IF req.dimensions = <<>> THEN <<800, 600>> ELSE req.dimensions

\* Window::new (cocoa).
cocoa_new(req, nat) ==
    LET b ==
    IF req.sharing # "None"
    THEN Built("Panic", "not yet implemented", <<>>, "none", "unchanged")
    ELSE IF req.min_dimensions
    THEN Built("Panic", "assertion failed: win_attribs.min_dimensions.is_none()",
               <<>>, "none", "unchanged")
    ELSE IF req.max_dimensions
    THEN Built("Panic", "assertion failed: win_attribs.max_dimensions.is_none()",
               <<>>, "none", "unchanged")
    ELSE IF req.robustness \in {"RobustNoResetNotification", "RobustLoseContextOnReset"}
    THEN Built("Err", "RobustnessNotSupported", <<>>, "none", "unchanged")
    ELSE IF ~nat.app
    THEN Built("Err", "OsError: Couldn't create NSApplication", <<"NSApp">>,
               "none", "unchanged")
    ELSE IF ~nat.window
    THEN Built("Err", "OsError: Couldn't create NSWindow",
               <<"NSApp", "initWithContentRect">>, "none", "unchanged")
    ELSE IF ~nat.view
    THEN Built("Err", "OsError: Couldn't create NSView",
               <<"NSApp", "initWithContentRect", "NSView::init", "release">>,
               "destroyed", "unchanged")
    ELSE
    LET c == <<"NSApp", "initWithContentRect", "NSView::init",
               "NSOpenGLPixelFormat::initWithAttributes">>
    IN  IF create_context(req, nat).tag = "Err"
        THEN Built("Err", "OsError: Couldn't create OpenGL context: "
                          \o create_context(req, nat).value,
                   c \o (IF nat.pixelformat THEN <<"NSOpenGLContext::initWithFormat">>
                         ELSE <<>>) \o <<"release">>,
                   "destroyed", "unchanged")
        ELSE Built("Ok", create_context(req, nat).value,
                   c \o <<"NSOpenGLContext::initWithFormat", "setDelegate",
                          "performSelector">>,
                   "alive", "unchanged")
    IN  [b EXCEPT !.size = IF b.hwnd = "none" THEN <<>> ELSE create_window_frame(req)]

\* Window::new (cocoa) runs on the calling thread.
CocoaWindowNew(req, nat) ==
    /\ platform = "macos" /\ phase = "new"
    /\ caller = "idle"
    /\ request' = req
    /\ built' = cocoa_new(req, nat)
    /\ answers' = nat
    /\ IF built'.outcome = "Panic"
       THEN caller' = "panicked" /\ returned' = returned
       ELSE caller' = "returned"
            /\ returned' = [tag |-> built'.outcome, value |-> built'.value]
    /\ UNCHANGED <<platform, phase, worker, oneshot, sent, cocoaVars, linuxVars, extraVars>>

\* No native call has answered yet.
NoAnswers == [app |-> TRUE, window |-> TRUE, view |-> TRUE, pixelformat |-> TRUE,
              context |-> TRUE]

NewInit ==
    /\ request = DefaultRequest
    /\ caller = "idle"
    /\ worker = "none"
    /\ built = NotBuilt
    /\ oneshot = <<>>
    /\ sent = 0
    /\ returned = NoResult
    /\ answers = NoAnswers

\* ---------------------------------------------- the linux backend selector
Threads == {1, 2}
\* Calls of Window::new, get_available_monitors and get_primary_monitor made in
\* one behaviour.
MaxCalls == 3

\* Why XConnection::new may fail.
XNotSupported == {"LibraryOpenError", "XOpenDisplayFailed"}

Operations == {"Window::new", "get_available_monitors", "get_primary_monitor"}

Backend(tag, conn, cause) == [tag |-> tag, conn |-> conn, cause |-> cause]
Uninitialized == Backend("Uninitialized", 0, "none")

NoBackendAvailable(cause) ==
    [tag |-> "Err", value |-> "NoBackendAvailable", cause |-> cause]

Idle == [pc |-> "idle", op |-> "none", result |-> NoResult]

LinuxInit ==
    /\ once = "Incomplete"
    /\ BACKEND = Uninitialized
    /\ attempts = 0
    /\ x11_windows = 0
    /\ thread = [t \in Threads |-> Idle]
    /\ calls = 0
    /\ observed = {}

\* A thread starts one of the three calls: each begins with *BACKEND.
LinuxCall(t, op) ==
    /\ platform = "linux"
    /\ thread[t].pc = "idle"
    /\ calls < MaxCalls
    /\ calls' = calls + 1
    /\ thread' = [thread EXCEPT ![t] = [pc |-> "deref", op |-> op, result |-> NoResult]]
    /\ UNCHANGED <<platform, phase, once, BACKEND, attempts, x11_windows, observed,
                   cocoaVars, newVars, extraVars>>

\* A faulty variant of Deref: the initializer is entered whenever it has not
\* completed, also while another thread runs it.
DerefUnguarded(t) ==
    /\ platform = "linux"
    /\ thread[t].pc = "deref"
    /\ IF once = "Complete"
       THEN thread' = [thread EXCEPT ![t].pc = "ready"] /\ once' = once
       ELSE thread' = [thread EXCEPT ![t].pc = "init"] /\ once' = "Running"
    /\ UNCHANGED <<platform, phase, BACKEND, attempts, x11_windows, calls, observed,
                   cocoaVars, newVars, extraVars>>

\* *BACKEND (lazy_static): the first thread to come runs the initializer, a
\* thread that comes while it runs waits, and a later one reads the value.
Deref(t) ==
    /\ platform = "linux"
    /\ thread[t].pc = "deref"
    /\ once # "Running"
    /\ IF once = "Complete"
       THEN thread' = [thread EXCEPT ![t].pc = "ready"] /\ once' = once
       ELSE thread' = [thread EXCEPT ![t].pc = "init"] /\ once' = "Running"
    /\ UNCHANGED <<platform, phase, BACKEND, attempts, x11_windows, calls, observed,
                   cocoaVars, newVars, extraVars>>

\* The initializer: XConnection::new(Some(x_error_callback)), Ok or Err.
InitBackend(t, outcome) ==
    /\ platform = "linux"
    /\ thread[t].pc = "init"
    /\ attempts' = attempts + 1
    /\ BACKEND' = IF outcome = "Ok" THEN Backend("X", attempts + 1, "none")
                  ELSE Backend("Error", 0, outcome)
    /\ once' = "Complete"
    /\ thread' = [thread EXCEPT ![t].pc = "ready"]
    /\ UNCHANGED <<platform, phase, x11_windows, calls, observed, cocoaVars, newVars, extraVars>>

\* X errors reported to the callback in one behaviour.
MaxErrors == 2

\* The error codes reported: BadWindow and BadMatch.
ErrorCodes == {3, 8}

\* No callback call made yet.
NoCallback == [calls |-> 0, code |-> 0, during |-> "none", returned |-> FALSE, ret |-> 0]

ErrInit ==
    /\ latest_error = 0
    /\ xlast = NoCallback

\* x_error_callback on the value of BACKEND: with Backend::X the error is
\* stored in latest_error, under its mutex; the callback returns 0.
x_error_callback(backend, latest, code) ==
    IF backend.tag = "X" THEN [latest_error |-> code, ret |-> 0]
    ELSE [latest_error |-> latest, ret |-> 0]

\* Xlib reports an error while thread t runs the initializer of BACKEND
\* (XConnection::new made x_error_callback the error handler): the callback
\* runs on that thread and begins with *BACKEND, a second call_once on the Once
\* that this very thread is running.  The Once either blocks the thread for
\* ever or panics; the initializer never completes.
XErrorInInit(t, code, how) ==
    /\ platform = "linux"
    /\ thread[t].pc = "init"
    /\ xlast.calls < MaxErrors
    /\ thread' = [thread EXCEPT ![t].pc = IF how = "deadlock" THEN "deadlocked"
                                          ELSE "callback_panicked"]
    /\ xlast' = [calls |-> xlast.calls + 1, code |-> code, during |-> "init",
                 returned |-> FALSE, ret |-> 0]
    /\ UNCHANGED <<platform, phase, once, BACKEND, attempts, x11_windows, calls, observed,
                   latest_error, cocoaVars, newVars, idrefs, pumpVars, cursorVars, glVars,
                   shareVars>>

\* Xlib reports an error once BACKEND is initialized: the callback reads the
\* value and returns.
XError(code) ==
    /\ platform = "linux"
    /\ once = "Complete"
    /\ xlast.calls < MaxErrors
    /\ LET r == x_error_callback(BACKEND, latest_error, code) IN
       /\ latest_error' = r.latest_error
       /\ xlast' = [calls |-> xlast.calls + 1, code |-> code, during |-> "run",
                    returned |-> TRUE, ret |-> r.ret]
    /\ UNCHANGED <<platform, phase, linuxVars, cocoaVars, newVars, idrefs, pumpVars,
                   cursorVars, glVars, shareVars>>

\* A faulty variant of Window_new: the backend's failure is not looked at.
Window_new_regardless(backend, x11ok) ==
    [result |-> IF x11ok THEN Ok("X") ELSE Err("x11"), made |-> 1]

\* Window::new on the value of BACKEND: x11::Window::new on the connection (it
\* succeeds or not), or the error that carries the recorded cause.
Window_new(backend, x11ok) ==
    IF backend.tag = "X"
    THEN [result |-> IF x11ok THEN Ok("X") ELSE Err("x11"), made |-> 1]
    ELSE [result |-> NoBackendAvailable(backend.cause), made |-> 0]

\* A faulty variant of get_available_monitors: no monitor at all when the
\* backend failed.
get_available_monitors_empty(backend) ==
    IF backend.tag = "X" THEN [tag |-> "Monitors", value |-> <<"X">>]
    ELSE [tag |-> "Monitors", value |-> <<>>]

\* get_available_monitors on the value of BACKEND.
get_available_monitors(backend) ==
    IF backend.tag = "X" THEN [tag |-> "Monitors", value |-> <<"X">>]
    ELSE [tag |-> "Monitors", value |-> <<"None">>]

\* get_primary_monitor on the value of BACKEND.
get_primary_monitor(backend) ==
    IF backend.tag = "X" THEN [tag |-> "Monitor", value |-> "X"]
    ELSE [tag |-> "Monitor", value |-> "None"]

\* The accessors of MonitorId.
Accessors == {"get_name", "get_native_identifier", "get_dimensions"}

\* What an accessor answers for the monitor m: MonitorId::X forwards to the
\* x11 monitor, which answers; MonitorId::None has no name, 800x600 for
\* dimensions, and unimplemented!() for the native identifier.
monitor_get(acc, m) ==
    CASE acc = "get_name" ->
           [tag |-> "Answer", value |-> IF m = "X" THEN "Some" ELSE "None", of |-> m]
      [] acc = "get_native_identifier" ->
           IF m = "X" THEN [tag |-> "Answer", value |-> "NativeMonitorId", of |-> m]
           ELSE [tag |-> "Panic", value |-> "not yet implemented", of |-> m]
      [] acc = "get_dimensions" ->
           IF m = "X"
           THEN [tag |-> "Answer", value |-> "x11", of |-> m, width |-> 1920, height |-> 1080]
           ELSE [tag |-> "Answer", value |-> "fixed", of |-> m, width |-> 800, height |-> 600]

\* A thread calls an accessor on the monitor its last call returned (the first
\* of them when it returned several).
MonitorCall(t, acc) ==
    /\ platform = "linux"
    /\ thread[t].pc = "idle"
    /\ thread[t].result.tag \in {"Monitor", "Monitors"}
    /\ calls < MaxCalls
    /\ calls' = calls + 1
    /\ LET r == thread[t].result
           m == IF r.tag = "Monitor" THEN r.value ELSE Head(r.value)
           a == monitor_get(acc, m)
       IN  thread' = [thread EXCEPT ![t] =
                        [pc |-> IF a.tag = "Panic" THEN "panicked" ELSE "idle",
                         op |-> acc, result |-> a]]
    /\ UNCHANGED <<platform, phase, once, BACKEND, attempts, x11_windows, observed,
                   cocoaVars, newVars, extraVars>>

\* The body of the call, after *BACKEND.
LinuxReturn(t, x11ok) ==
    /\ platform = "linux"
    /\ thread[t].pc = "ready"
    /\ observed' = observed \cup {BACKEND}
    /\ LET op == thread[t].op
           new == Window_new(BACKEND, x11ok)
       IN  /\ thread' = [thread EXCEPT ![t] =
                 [pc |-> "idle", op |-> op,
                  result |-> CASE op = "Window::new" -> new.result
                               [] op = "get_available_monitors" ->
                                    get_available_monitors(BACKEND)
                               [] OTHER -> get_primary_monitor(BACKEND)]]
           /\ x11_windows' = IF op = "Window::new" THEN x11_windows + new.made
                             ELSE x11_windows
    /\ UNCHANGED <<platform, phase, once, BACKEND, attempts, calls, cocoaVars, newVars, extraVars>>

\* --------------------------------------------------------------- IdRef
\* Wrappers made of one handle in one behaviour.
MaxMade == 4

\* The handles wrapped: nil and one native object.
Handles == {"nil", "object"}

\* Per handle: whether IdRef::new wrapped it, the wrappers alive, the clone,
\* IdRef::retain and drop calls made, the retain and release messages sent to
\* it, and the references the wrappers own (the one taken over by new and one
\* per retain message).
NoIdRef ==
    [created |-> FALSE, live |-> 0, clones |-> 0, retained |-> 0, drops |-> 0,
     retains |-> 0, releases |-> 0, owned |-> 0]

IdRefInit == idrefs = [h \in Handles |-> NoIdRef]

\* msg_send![i, retain] and msg_send![self.0, release].
SendRetain(r) == [r EXCEPT !.retains = @ + 1, !.owned = @ + 1]
SendRelease(r) == [r EXCEPT !.releases = @ + 1]

\* IdRef::new(i): the wrapper takes over the reference its caller holds.
IdRef_new(r, h) ==
    [r EXCEPT !.created = TRUE, !.live = @ + 1,
              !.owned = IF h = "nil" THEN @ ELSE @ + 1]

\* IdRef::retain(i).
IdRef_retain(r, h) ==
    LET r1 == IF h # "nil" THEN SendRetain(r) ELSE r
    IN  [r1 EXCEPT !.created = TRUE, !.live = @ + 1, !.retained = @ + 1]

\* A faulty variant of IdRef_clone: the handle is copied without a retain.
IdRef_clone_copy(r, h) ==
    [r EXCEPT !.live = @ + 1, !.clones = @ + 1]

\* Clone for IdRef.
IdRef_clone(r, h) ==
    LET r1 == IF h # "nil" THEN SendRetain(r) ELSE r
    IN  [r1 EXCEPT !.live = @ + 1, !.clones = @ + 1]

\* Drop for IdRef.
IdRef_drop(r, h) ==
    LET r1 == IF h # "nil" THEN SendRelease(r) ELSE r
    IN  [r1 EXCEPT !.live = @ - 1, !.drops = @ + 1]

\* IdRef::non_nil(self): a nil wrapper is dropped and None returned, another
\* one is handed on.
IdRef_non_nil(r, h) ==
    IF h = "nil" THEN IdRef_drop(r, h) ELSE r

\* IdRef::new on a handle: on the object once, when it is created.
IdRefNew(h) ==
    /\ platform = "macos" /\ phase = "idref"
    /\ h = "object" => ~idrefs[h].created
    /\ idrefs[h].live + idrefs[h].drops < MaxMade
    /\ idrefs' = [idrefs EXCEPT ![h] = IdRef_new(@, h)]
    /\ UNCHANGED <<platform, phase, cocoaVars, newVars, linuxVars, pumpVars, cursorVars, moreVars>>

\* IdRef::retain on a handle some wrapper keeps alive.
IdRefRetain(h) ==
    /\ platform = "macos" /\ phase = "idref"
    /\ h = "object" => idrefs[h].live > 0
    /\ idrefs[h].live + idrefs[h].drops < MaxMade
    /\ idrefs[h].retained < 1
    /\ idrefs' = [idrefs EXCEPT ![h] = IdRef_retain(@, h)]
    /\ UNCHANGED <<platform, phase, cocoaVars, newVars, linuxVars, pumpVars, cursorVars, moreVars>>

\* clone() of a live wrapper.
IdRefClone(h) ==
    /\ platform = "macos" /\ phase = "idref"
    /\ idrefs[h].live > 0
    /\ idrefs[h].live + idrefs[h].drops < MaxMade
    /\ idrefs' = [idrefs EXCEPT ![h] = IdRef_clone(@, h)]
    /\ UNCHANGED <<platform, phase, cocoaVars, newVars, linuxVars, pumpVars, cursorVars, moreVars>>

\* A live wrapper goes out of scope.
IdRefDrop(h) ==
    /\ platform = "macos" /\ phase = "idref"
    /\ idrefs[h].live > 0
    /\ idrefs' = [idrefs EXCEPT ![h] = IdRef_drop(@, h)]
    /\ UNCHANGED <<platform, phase, cocoaVars, newVars, linuxVars, pumpVars, cursorVars, moreVars>>

\* non_nil() of a live wrapper.
IdRefNonNil(h) ==
    /\ platform = "macos" /\ phase = "idref"
    /\ idrefs[h].live > 0
    /\ idrefs' = [idrefs EXCEPT ![h] = IdRef_non_nil(@, h)]
    /\ UNCHANGED <<platform, phase, cocoaVars, newVars, linuxVars, pumpVars, cursorVars, moreVars>>

\* ------------------------------------------- the win32 window at run time
\* Messages posted to the window in one behaviour.
MaxMessages == 3

\* The last element of a non-empty sequence, and the sequence without it.
Last(seq) == seq[Len(seq)]
Front(seq) == SubSeq(seq, 1, Len(seq) - 1)

Message(name, id) == [name |-> name, id |-> id]
\* No next() call made yet on the win32 window.
NoNext == [kind |-> "none", result |-> None, blocked |-> FALSE, channel |-> <<>>]

\* What every native call answers when the construction succeeds.
AllOk == [cds |-> TRUE, window |-> TRUE, dc |-> TRUE, egl |-> FALSE, wgl |-> "Ok"]

\* The state new_window leaves when init succeeded: the window returned to
\* the caller and the spawned thread in its message loop.
NewDone ==
    /\ request = DefaultRequest
    /\ caller = "returned"
    /\ worker = "loop"
    /\ built = init(DefaultRequest, AllOk)
    /\ oneshot = <<>>
    /\ sent = 1
    /\ returned = Ok("Wgl")
    /\ answers = AllOk

PumpInit ==
    /\ msgqueue = <<>>
    /\ w32posted = 0
    /\ events_receiver = <<>>
    /\ fetched = <<>>
    /\ dispatched = <<>>
    /\ window_life = "alive"
    /\ drops = <<>>
    /\ receiving = FALSE
    /\ w32last = NoNext

\* PostMessage to the window: the message joins the queue of the thread that
\* created the window, as long as that thread runs its loop.
PostMessage(queue, m) == IF worker = "loop" THEN Append(queue, m) ELSE queue

\* The window gets a message from the system: a key pressed, or the window
\* destroyed.
Win32Post(name) ==
    /\ platform = "windows" /\ phase = "run"
    /\ w32posted < MaxMessages
    /\ worker = "loop"
    /\ w32posted' = w32posted + 1
    /\ msgqueue' = PostMessage(msgqueue, Message(name, w32posted + 1))
    /\ UNCHANGED <<platform, phase, events_receiver, fetched, dispatched, window_life, drops,
                   receiving, w32last, cocoaVars, newVars, linuxVars, idrefs, cursorVars, moreVars>>

\* WindowProxy::wakeup_event_loop (win32): PostMessageA(hwnd, WAKEUP_MSG_ID).
Win32Wakeup ==
    /\ platform = "windows" /\ phase = "run"
    /\ w32posted < MaxMessages
    /\ w32posted' = w32posted + 1
    /\ msgqueue' = PostMessage(msgqueue, Message("WAKEUP_MSG_ID", w32posted + 1))
    /\ UNCHANGED <<platform, phase, events_receiver, fetched, dispatched, window_life, drops,
                   receiving, w32last, cocoaVars, newVars, linuxVars, idrefs, cursorVars, moreVars>>

\* callback(window, msg, ...), called by DispatchMessageW: what it sends on the
\* events channel and what it posts.
callback(m) ==
    CASE m.name = "WAKEUP_MSG_ID" -> [send |-> <<Awakened(m.id, 1)>>, post |-> <<>>]
      [] m.name = "WM_KEYDOWN" ->
           [send |-> <<KeyboardInput("Pressed", "A", m.id, 1)>>, post |-> <<>>]
      [] m.name = "WM_DESTROY" -> [send |-> <<>>, post |-> <<Message("WM_QUIT", 0)>>]
      [] OTHER -> [send |-> <<>>, post |-> <<>>]

\* A faulty variant of loop_after: the loop goes on after GetMessageW returned 0.
loop_ignores_quit(m) == "loop"

\* Where the spawned thread is after GetMessageW returned m: the loop breaks
\* when it returned 0, which it does for WM_QUIT.
loop_after(m) == IF m.name = "WM_QUIT" THEN "done" ELSE "loop"

\* One turn of the spawned thread's loop: GetMessageW takes a message (it waits
\* for one), and unless it returned 0 the message is translated and dispatched.
WorkerLoop ==
    /\ platform = "windows" /\ phase = "run"
    /\ worker = "loop"
    /\ msgqueue # <<>>
    /\ LET m == Head(msgqueue) IN
       /\ fetched' = Append(fetched, m)
       /\ worker' = loop_after(m)
       /\ IF m.name = "WM_QUIT"
          THEN /\ msgqueue' = Tail(msgqueue)
               /\ UNCHANGED <<dispatched, events_receiver>>
          ELSE /\ dispatched' = Append(dispatched, m)
               /\ msgqueue' = Tail(msgqueue) \o callback(m).post
               /\ events_receiver' = IF window_life = "alive"
                                     THEN events_receiver \o callback(m).send
                                     ELSE events_receiver
    /\ UNCHANGED <<platform, phase, w32posted, window_life, drops, receiving, w32last,
                   request, caller, built, oneshot, sent, returned, answers,
                   cocoaVars, linuxVars, idrefs, cursorVars, moreVars>>

\* A faulty variant of SenderAlive: the receiver takes the sender for gone
\* whenever the channel is empty.
SenderTakenForGone == FALSE

\* The sender of the events channel lives in the spawned thread's
\* CONTEXT_STASH: it is dropped when that thread ends.
SenderAlive == worker = "loop"

\* PollEventsIterator::next (win32): events_receiver.try_recv().ok().
Win32PollNext ==
    /\ platform = "windows" /\ phase = "run"
    /\ window_life = "alive" /\ ~receiving
    /\ IF events_receiver # <<>>
       THEN /\ w32last' = [kind |-> "poll", result |-> Head(events_receiver),
                           blocked |-> FALSE, channel |-> events_receiver]
            /\ events_receiver' = Tail(events_receiver)
       ELSE /\ w32last' = [kind |-> "poll", result |-> None, blocked |-> FALSE,
                           channel |-> events_receiver]
            /\ UNCHANGED events_receiver
    /\ UNCHANGED <<platform, phase, msgqueue, w32posted, fetched, dispatched, window_life,
                   drops, receiving, cocoaVars, newVars, linuxVars, idrefs, cursorVars, moreVars>>

\* WaitEventsIterator::next (win32) finds the channel empty and its sender
\* alive: the thread stays in recv().
Win32WaitBlock ==
    /\ platform = "windows" /\ phase = "run"
    /\ window_life = "alive" /\ ~receiving
    /\ events_receiver = <<>> /\ SenderAlive
    /\ receiving' = TRUE
    /\ UNCHANGED <<platform, phase, msgqueue, w32posted, events_receiver, fetched,
                   dispatched, window_life, drops, w32last, cocoaVars, newVars, linuxVars,
                   idrefs, cursorVars, moreVars>>

\* WaitEventsIterator::next (win32): events_receiver.recv().ok(), from its call
\* or from where it blocked: the next event, or None once the sender is gone.
Win32WaitNext ==
    /\ platform = "windows" /\ phase = "run"
    /\ window_life = "alive"
    /\ events_receiver # <<>> \/ ~SenderAlive
    /\ IF events_receiver # <<>>
       THEN /\ w32last' = [kind |-> "wait", result |-> Head(events_receiver),
                           blocked |-> receiving, channel |-> events_receiver]
            /\ events_receiver' = Tail(events_receiver)
       ELSE /\ w32last' = [kind |-> "wait", result |-> None, blocked |-> receiving,
                           channel |-> events_receiver]
            /\ UNCHANGED events_receiver
    /\ receiving' = FALSE
    /\ UNCHANGED <<platform, phase, msgqueue, w32posted, fetched, dispatched, window_life,
                   drops, cocoaVars, newVars, linuxVars, idrefs, cursorVars, moreVars>>

\* One call that releases (or only uses) a native handle.
Release(call, handle) == [call |-> call, handle |-> handle]

\* The drop of the context field (WglContext or EglContext).
ContextDrop == <<Release("Context::drop", "context")>>

\* A faulty variant of win32_drop: the wrapper's handle is destroyed a second
\* time after the context.
win32_drop_twice ==
    <<Release("PostMessageW(WM_DESTROY)", "none"), Release("DestroyWindow", "window"),
      Release("Context::drop", "context"), Release("DestroyWindow", "window")>>

\* Drop for Window (win32) and then the drop of its fields in the order they
\* are declared: window (WindowWrapper calls DestroyWindow), context,
\* events_receiver, window_state.  Nothing releases the device context.
win32_drop ==
    <<Release("PostMessageW(WM_DESTROY)", "none"), Release("DestroyWindow", "window")>>
    \o ContextDrop

\* The drop of a cocoa Window: its fields in the order they are declared
\* (view, window, context, pixel_format, delegate); the delegate's drop clears
\* the window's delegate and then drops its state (context, view, window) and
\* the delegate object.
cocoa_drop ==
    <<Release("release", "surface"), Release("release", "window"),
      Release("release", "context"), Release("setDelegate:nil", "none"),
      Release("release", "context"), Release("release", "surface"),
      Release("release", "window"), Release("release", "delegate")>>

\* The references to each handle that a constructed window holds: the cocoa
\* Window and its DelegateState hold a wrapper each of the view, the window and
\* the context; the win32 Window holds each handle once.
RefsHeld(h) == IF platform = "macos" THEN 2 ELSE 1

\* Drop for Window (win32), run by the thread that owns the Window.
Win32Drop ==
    /\ platform = "windows" /\ phase = "run"
    /\ window_life = "alive" /\ ~receiving
    /\ window_life' = "dropped"
    /\ drops' = win32_drop
    /\ msgqueue' = PostMessage(msgqueue, Message("WM_DESTROY", 0))
    /\ UNCHANGED <<platform, phase, w32posted, events_receiver, fetched, dispatched,
                   receiving, w32last, cocoaVars, newVars, linuxVars, idrefs, cursorVars, moreVars>>

\* The Window that Window::new (cocoa) returned is dropped.
CocoaDrop ==
    /\ platform = "macos" /\ phase = "new"
    /\ caller = "returned" /\ returned.tag = "Ok"
    /\ window_life = "alive"
    /\ window_life' = "dropped"
    /\ drops' = cocoa_drop
    /\ UNCHANGED <<platform, phase, msgqueue, w32posted, events_receiver, fetched,
                   dispatched, receiving, w32last, cocoaVars, newVars, linuxVars,
                   idrefs, cursorVars, moreVars>>

\* ------------------------------------------------------------ the cursor
\* Calls of set_cursor and set_cursor_state made in one behaviour.
MaxOps == 3

MouseCursors ==
    {"Arrow", "Default", "Hand", "Grabbing", "Grab", "Text", "VerticalText", "Copy",
     "Alias", "NotAllowed", "NoDrop", "ContextMenu", "Crosshair", "EResize", "NResize",
     "WResize", "SResize", "EwResize", "ColResize", "NsResize", "RowResize", "NeResize",
     "NwResize", "SeResize", "SwResize", "NwseResize", "NeswResize", "Cell",
     "NoneCursor", "Wait", "Progress", "Help", "Move", "AllScroll", "ZoomIn", "ZoomOut"}

\* The kinds the win32 threads ask for: one with an arm of its own, one that
\* shares an arm, and one of the missing cases.
CursorsTried == {"Hand", "VerticalText", "Grab"}

CursorStates == {"Normal", "Hide", "Grab"}

\* Window::set_cursor (win32): the cursor id of each kind.
cursor_id(cursor) ==
    CASE cursor \in {"Arrow", "Default"} -> "IDC_ARROW"
      [] cursor = "Hand" -> "IDC_HAND"
      [] cursor = "Crosshair" -> "IDC_CROSS"
      [] cursor \in {"Text", "VerticalText"} -> "IDC_IBEAM"
      [] cursor \in {"NotAllowed", "NoDrop"} -> "IDC_NO"
      [] cursor = "EResize" -> "IDC_SIZEWE"
      [] cursor = "NResize" -> "IDC_SIZENS"
      [] cursor = "WResize" -> "IDC_SIZEWE"
      [] cursor = "SResize" -> "IDC_SIZENS"
      [] cursor \in {"EwResize", "ColResize"} -> "IDC_SIZEWE"
      [] cursor \in {"NsResize", "RowResize"} -> "IDC_SIZENS"
      [] cursor \in {"Wait", "Progress"} -> "IDC_WAIT"
      [] cursor = "Help" -> "IDC_HELP"
      [] OTHER -> "IDC_ARROW"

\* Window::set_cursor (cocoa): the NSCursor selector of each kind.
cursor_name(cursor) ==
    CASE cursor \in {"Arrow", "Default"} -> "arrowCursor"
      [] cursor = "Hand" -> "pointingHandCursor"
      [] cursor \in {"Grabbing", "Grab"} -> "closedHandCursor"
      [] cursor = "Text" -> "IBeamCursor"
      [] cursor = "VerticalText" -> "IBeamCursorForVerticalLayout"
      [] cursor = "Copy" -> "dragCopyCursor"
      [] cursor = "Alias" -> "dragLinkCursor"
      [] cursor \in {"NotAllowed", "NoDrop"} -> "operationNotAllowedCursor"
      [] cursor = "ContextMenu" -> "contextualMenuCursor"
      [] cursor = "Crosshair" -> "crosshairCursor"
      [] cursor = "EResize" -> "resizeRightCursor"
      [] cursor = "NResize" -> "resizeUpCursor"
      [] cursor = "WResize" -> "resizeLeftCursor"
      [] cursor = "SResize" -> "resizeDownCursor"
      [] cursor \in {"EwResize", "ColResize"} -> "resizeLeftRightCursor"
      [] cursor \in {"NsResize", "RowResize"} -> "resizeUpDownCursor"
      [] OTHER -> "arrowCursor"

\* What GetClientRect and ClipCursor answer in one set_cursor_state call.
CursorOutcomes == [rect : BOOLEAN, clip : BOOLEAN]

\* A faulty variant of cursor_state_match: Grab is stored before the cursor is
\* clipped, so a failed ClipCursor leaves it stored.
cursor_state_match_early_store(state, current, nat) ==
    LET out(res, cs, natives, how) ==
            [res |-> res, cursor_state |-> cs, natives |-> natives, how |-> how]
    IN  CASE state = current -> out(Ok("()"), current, {}, "end")
          [] state = "Hide" /\ current = "Normal" -> out(Ok("()"), "Hide", {}, "end")
          [] state = "Normal" /\ current = "Hide" -> out(Ok("()"), "Normal", {}, "end")
          [] state = "Grab" /\ current \in {"Normal", "Hide"} ->
               IF ~nat.rect
               THEN out(Err("GetWindowRect failed"), current, {"GetClientRect"}, "return")
               ELSE IF ~nat.clip
               THEN out(Err("ClipCursor failed"), "Grab",
                        {"GetClientRect", "ClientToScreen", "ClipCursor"}, "return")
               ELSE out(Ok("()"), "Grab",
                        {"GetClientRect", "ClientToScreen", "ClipCursor"}, "end")
          [] state = "Normal" /\ current = "Grab" ->
               IF ~nat.clip
               THEN out(Err("ClipCursor failed"), current, {"ClipCursor"}, "return")
               ELSE out(Ok("()"), "Normal", {"ClipCursor"}, "end")
          [] OTHER -> out(NoResult, current, {}, "panic")

\* The match of Window::set_cursor_state (win32) on (state, current): the
\* result, the cursor_state it leaves, the native calls it makes, and whether
\* it returns from inside the match, or panics.
cursor_state_match(state, current, nat) ==
    LET out(res, cs, natives, how) ==
            [res |-> res, cursor_state |-> cs, natives |-> natives, how |-> how]
    IN  CASE state = current -> out(Ok("()"), current, {}, "end")
          [] state = "Hide" /\ current = "Normal" -> out(Ok("()"), "Hide", {}, "end")
          [] state = "Normal" /\ current = "Hide" -> out(Ok("()"), "Normal", {}, "end")
          [] state = "Grab" /\ current \in {"Normal", "Hide"} ->
               IF ~nat.rect
               THEN out(Err("GetWindowRect failed"), current, {"GetClientRect"}, "return")
               ELSE IF ~nat.clip
               THEN out(Err("ClipCursor failed"), current,
                        {"GetClientRect", "ClientToScreen", "ClipCursor"}, "return")
               ELSE out(Ok("()"), "Grab",
                        {"GetClientRect", "ClientToScreen", "ClipCursor"}, "end")
          [] state = "Normal" /\ current = "Grab" ->
               IF ~nat.clip
               THEN out(Err("ClipCursor failed"), current, {"ClipCursor"}, "return")
               ELSE out(Ok("()"), "Normal", {"ClipCursor"}, "end")
          [] OTHER -> out(NoResult, current, {}, "panic")

\* The creation attributes kept in WindowState.
Attributes == [title |-> "glutin window", visible |-> TRUE]

\* A thread that makes no call.
NoOp == [pc |-> "idle", op |-> "none", arg |-> "none", result |-> NoResult,
         before |-> <<>>, after |-> <<>>]

CursorInit ==
    /\ window_state = [cursor |-> "IDC_ARROW", cursor_state |-> "Normal",
                       attributes |-> Attributes]
    /\ mutex = [holder |-> 0, poisoned |-> FALSE]
    /\ cthread = [t \in Threads |-> NoOp]
    /\ ops = 0
    /\ under_lock = {}
    /\ attached = 0
    /\ nscursor = "arrowCursor"

\* A faulty variant of store_cursor: the capture mode is overwritten with the
\* shape.
store_cursor_reset(ws, id) == [ws EXCEPT !.cursor = id, !.cursor_state = "Hide"]

\* cur.cursor = cursor_id.
store_cursor(ws, id) == [ws EXCEPT !.cursor = id]

\* A thread calls set_cursor or set_cursor_state (win32): both begin with
\* window_state.lock().
CursorCall(t, op, arg) ==
    /\ platform = "windows" /\ phase = "cursor"
    /\ cthread[t].pc = "idle"
    /\ ops < MaxOps
    /\ ops' = ops + 1
    /\ cthread' = [cthread EXCEPT ![t] =
                     [pc |-> "lock", op |-> op, arg |-> arg, result |-> NoResult,
                      before |-> <<>>, after |-> <<>>]]
    /\ UNCHANGED <<platform, phase, window_state, mutex, under_lock, attached, nscursor,
                   cocoaVars, newVars, linuxVars, idrefs, pumpVars, moreVars>>

\* window_state.lock().unwrap(): the thread waits while another one holds the
\* mutex, and panics when the mutex is poisoned.
Lock(t) ==
    /\ platform = "windows" /\ phase = "cursor"
    /\ cthread[t].pc = "lock"
    /\ mutex.holder = 0
    /\ IF mutex.poisoned
       THEN /\ cthread' = [cthread EXCEPT ![t].pc = "panicked"]
            /\ UNCHANGED mutex
       ELSE /\ cthread' = [cthread EXCEPT ![t].pc = "locked"]
            /\ mutex' = [mutex EXCEPT !.holder = t]
    /\ UNCHANGED <<platform, phase, window_state, ops, under_lock, attached, nscursor,
                   cocoaVars, newVars, linuxVars, idrefs, pumpVars, moreVars>>

\* The native calls made by t, noted when t holds the mutex.
NotedUnderLock(t, natives) ==
    IF mutex.holder = t THEN under_lock \cup natives ELSE under_lock

\* Window::set_cursor (win32), after the lock: the store, and the guard dropped
\* on return.
SetCursorStore(t) ==
    /\ platform = "windows" /\ phase = "cursor"
    /\ cthread[t].pc = "locked" /\ cthread[t].op = "set_cursor"
    /\ window_state' = store_cursor(window_state, cursor_id(cthread[t].arg))
    /\ mutex' = [mutex EXCEPT !.holder = 0]
    /\ cthread' = [cthread EXCEPT ![t].pc = "idle", ![t].result = Ok("()"),
                                  ![t].before = <<window_state>>,
                                  ![t].after = <<window_state'>>]
    /\ UNCHANGED <<platform, phase, ops, under_lock, attached, nscursor,
                   cocoaVars, newVars, linuxVars, idrefs, pumpVars, moreVars>>

\* Window::set_cursor_state (win32), after the lock: the thread ids are asked
\* for and the thread input attached.
Attach(t) ==
    /\ platform = "windows" /\ phase = "cursor"
    /\ cthread[t].pc = "locked" /\ cthread[t].op = "set_cursor_state"
    /\ attached' = attached + 1
    /\ under_lock' = NotedUnderLock(t, {"GetWindowThreadProcessId", "GetCurrentThreadId",
                                        "AttachThreadInput"})
    /\ cthread' = [cthread EXCEPT ![t].pc = "attached"]
    /\ UNCHANGED <<platform, phase, window_state, mutex, ops, nscursor,
                   cocoaVars, newVars, linuxVars, idrefs, pumpVars, moreVars>>

\* Window::set_cursor_state (win32), from the match to the end: a return from
\* inside the match skips the detaching call; the guard is dropped on every
\* way out, and a panic with the guard held poisons the mutex.
CursorStateMatch(t, nat) ==
    /\ platform = "windows" /\ phase = "cursor"
    /\ cthread[t].pc = "attached"
    /\ LET m == cursor_state_match(cthread[t].arg, window_state.cursor_state, nat) IN
       /\ window_state' = [window_state EXCEPT !.cursor_state = m.cursor_state]
       /\ under_lock' = NotedUnderLock(t, m.natives \cup
                            (IF m.how = "end" THEN {"AttachThreadInput"} ELSE {}))
       /\ attached' = IF m.how = "end" THEN attached - 1 ELSE attached
       /\ mutex' = [holder |-> 0, poisoned |-> mutex.poisoned \/ m.how = "panic"]
       /\ cthread' = [cthread EXCEPT ![t].pc = IF m.how = "panic" THEN "panicked"
                                               ELSE "idle",
                                     ![t].result = m.res,
                                     ![t].before = <<window_state>>,
                                     ![t].after = <<window_state'>>]
    /\ UNCHANGED <<platform, phase, ops, nscursor,
                   cocoaVars, newVars, linuxVars, idrefs, pumpVars, moreVars>>

\* Window::set_cursor (cocoa): the NSCursor of the kind is made current.
CocoaSetCursor(k) ==
    /\ platform = "macos" /\ phase = "cursor"
    /\ ops < MaxOps
    /\ ops' = ops + 1
    /\ nscursor' = cursor_name(k)
    /\ cthread' = [cthread EXCEPT ![1] =
                     [pc |-> "idle", op |-> "set_cursor", arg |-> k, result |-> Ok("()"),
                      before |-> <<nscursor>>, after |-> <<nscursor'>>]]
    /\ UNCHANGED <<platform, phase, window_state, mutex, under_lock, attached,
                   cocoaVars, newVars, linuxVars, idrefs, pumpVars, moreVars>>

\* ------------------------------------------------------ the current context
\* GlContext calls made in one behaviour.
MaxGlCalls == 3

\* Each window has one context (named by the window's number); 0 is nil.
Contexts == Windows

NoGlCall == [op |-> "none", thread |-> 0, ctx |-> 0, result |-> "none"]

GlInit ==
    /\ thread_current = [t \in Threads |-> 0]
    /\ made = [t \in Threads |-> 0]
    /\ gllast = NoGlCall
    /\ glcalls = 0

\* make_current (cocoa): [context update]; context.makeCurrentContext(); Ok(()).
makeCurrentContext(cur, t, c) == [res |-> "Ok", current |-> [cur EXCEPT ![t] = c]]

\* make_current of the WGL / EGL context (win32): the driver refuses a context
\* that is current on another thread.
Context_make_current(cur, t, c) ==
    IF \E t2 \in Threads \ {t} : cur[t2] = c
    THEN [res |-> "Err", current |-> cur]
    ELSE [res |-> "Ok", current |-> [cur EXCEPT ![t] = c]]

make_current(cur, t, c) ==
    IF platform = "macos" THEN makeCurrentContext(cur, t, c)
    ELSE Context_make_current(cur, t, c)

\* is_current: the thread's current context is not nil and is this context.
is_current(cur, t, c) == cur[t] # 0 /\ cur[t] = c

\* A faulty variant of swap_buffers: the context is made current to be flushed.
swap_buffers_binds(cur, t, c) == [cur EXCEPT ![t] = c]

\* swap_buffers: context.flushBuffer() (cocoa), SwapBuffers (win32); the
\* thread's current context is not touched.
swap_buffers(cur, t, c) == cur

GlCall(t, c, op, res) ==
    /\ phase = "gl"
    /\ glcalls < MaxGlCalls
    /\ glcalls' = glcalls + 1
    /\ gllast' = [op |-> op, thread |-> t, ctx |-> c, result |-> res]

MakeCurrent(t, c) ==
    /\ GlCall(t, c, "make_current", make_current(thread_current, t, c).res)
    /\ thread_current' = make_current(thread_current, t, c).current
    /\ made' = IF make_current(thread_current, t, c).res = "Ok"
               THEN [made EXCEPT ![t] = c] ELSE made
    /\ UNCHANGED <<platform, phase, cocoaVars, newVars, linuxVars, idrefs, pumpVars,
                   cursorVars, shareVars, errVars>>

IsCurrent(t, c) ==
    /\ GlCall(t, c, "is_current",
              IF is_current(thread_current, t, c) THEN "true" ELSE "false")
    /\ UNCHANGED <<platform, phase, thread_current, made, cocoaVars, newVars, linuxVars,
                   idrefs, pumpVars, cursorVars, shareVars, errVars>>

SwapBuffers(t, c) ==
    /\ GlCall(t, c, "swap_buffers", "Ok")
    /\ thread_current' = swap_buffers(thread_current, t, c)
    /\ UNCHANGED <<platform, phase, made, cocoaVars, newVars, linuxVars, idrefs, pumpVars,
                   cursorVars, shareVars, errVars>>

\* get_pixel_format: self.pixel_format.clone().
GetPixelFormat(t, c) ==
    /\ GlCall(t, c, "get_pixel_format", "PixelFormat")
    /\ UNCHANGED <<platform, phase, thread_current, made, cocoaVars, newVars, linuxVars,
                   idrefs, pumpVars, cursorVars, shareVars, errVars>>

\* --------------------------------------------- threads sharing a Window
ShareInit ==
    /\ in_next = [t \in Threads |-> 0]
    /\ pumped = [w \in Windows |-> {}]

\* A thread that holds &Window (Window is Send and Sync) calls next() of its
\* poll_events or wait_events: it fetches from the application's event queue
\* with nextEventMatchingMask; nothing checks which thread it is, and nothing
\* keeps another thread out.
ShareNextFetch(t, w) ==
    /\ platform = "macos" /\ phase = "share"
    /\ in_next[t] = 0
    /\ in_next' = [in_next EXCEPT ![t] = w]
    /\ pumped' = [pumped EXCEPT ![w] = @ \cup {t}]
    /\ UNCHANGED <<platform, phase, cocoaVars, newVars, linuxVars, idrefs, pumpVars,
                   cursorVars, glVars, errVars>>

\* The fetch returns and next() with it.
ShareNextReturn(t) ==
    /\ platform = "macos" /\ phase = "share"
    /\ in_next[t] # 0
    /\ in_next' = [in_next EXCEPT ![t] = 0]
    /\ UNCHANGED <<platform, phase, pumped, cocoaVars, newVars, linuxVars, idrefs, pumpVars,
                   cursorVars, glVars, errVars>>

\* ------------------------------------------------------ the specification
Init ==
    /\ \/ platform = "macos" /\ phase \in {"new", "run", "idref", "cursor", "gl", "share", "scroll"}
       \/ platform = "windows" /\ phase \in {"new", "run", "cursor", "gl"}
       \/ platform = "linux" /\ phase = "run"
    /\ CocoaInit
    /\ IF platform = "windows" /\ phase \in {"run", "cursor", "gl"} THEN NewDone ELSE NewInit
    /\ LinuxInit
    /\ IdRefInit
    /\ PumpInit
    /\ CursorInit
    /\ GlInit
    /\ ShareInit
    /\ ErrInit

\* (The platform and the phase are tested before a large set of inputs is
\* enumerated.)
Next ==
    \/ phase = "run" /\ \E e \in ServerEvents : PostNative(e)
    \/ phase = "scroll" /\ \E e \in ScrollEvents : PostScroll(e)
    \/ wakeup_event_loop
    \/ \E w \in Windows : PollNext(w)
    \/ \E w \in Windows : WaitBlock(w)
    \/ \E w \in Windows : WaitNext(w)
    \/ /\ platform = "macos" /\ phase = "new"
       /\ \E req \in CocoaRequests : \E nat \in CocoaOutcomes : CocoaWindowNew(req, nat)
    \/ /\ platform = "windows" /\ phase = "new"
       /\ \E req \in WinRequests : Win32WindowNew(req)
    \/ \E nat \in WinOutcomes(request) : WorkerInit(nat)
    \/ WorkerSend
    \/ CallerRecv
    \/ \E t \in Threads : \E op \in Operations : LinuxCall(t, op)
    \/ \E t \in Threads : \E acc \in Accessors : MonitorCall(t, acc)
    \/ \E t \in Threads : Deref(t)
    \/ \E t \in Threads : \E outcome \in {"Ok"} \cup XNotSupported : InitBackend(t, outcome)
    \/ \E t \in Threads : \E x11ok \in BOOLEAN : LinuxReturn(t, x11ok)
    \/ \E h \in Handles : IdRefNew(h)
    \/ \E h \in Handles : IdRefRetain(h)
    \/ \E h \in Handles : IdRefClone(h)
    \/ \E h \in Handles : IdRefDrop(h)
    \/ \E h \in Handles : IdRefNonNil(h)
    \/ \E name \in {"WM_KEYDOWN", "WM_DESTROY"} : Win32Post(name)
    \/ Win32Wakeup
    \/ WorkerLoop
    \/ Win32PollNext
    \/ Win32WaitBlock
    \/ Win32WaitNext
    \/ Win32Drop
    \/ CocoaDrop
    \/ \E t \in Threads : \E k \in CursorsTried : CursorCall(t, "set_cursor", k)
    \/ \E t \in Threads : \E st \in CursorStates : CursorCall(t, "set_cursor_state", st)
    \/ \E t \in Threads : Lock(t)
    \/ \E t \in Threads : SetCursorStore(t)
    \/ \E t \in Threads : Attach(t)
    \/ \E t \in Threads : \E nat \in CursorOutcomes : CursorStateMatch(t, nat)
    \/ phase = "cursor" /\ \E k \in MouseCursors : CocoaSetCursor(k)
    \/ \E t \in Threads : \E c \in Contexts : MakeCurrent(t, c)
    \/ \E t \in Threads : \E c \in Contexts : IsCurrent(t, c)
    \/ \E t \in Threads : \E c \in Contexts : SwapBuffers(t, c)
    \/ \E t \in Threads : \E c \in Contexts : GetPixelFormat(t, c)
    \/ \E t \in Threads : \E w \in Windows : ShareNextFetch(t, w)
    \/ \E t \in Threads : ShareNextReturn(t)
    \/ \E t \in Threads : \E code \in ErrorCodes : \E how \in {"deadlock", "panic"} :
          XErrorInInit(t, code, how)
    \/ \E code \in ErrorCodes : XError(code)

Spec == Init /\ [][Next]_vars

\* The program under its scheduling: a thread blocked in nextEventMatchingMask
\* or in recv() is resumed once the call can return, and the spawned thread,
\* blocked in GetMessageW, is resumed once a message is in its queue.
FairSpec ==
    /\ Spec
    /\ WF_vars(\E w \in Windows : waiting = w /\ WaitNext(w))
    /\ WF_vars(WorkerLoop)
    /\ WF_vars(receiving /\ Win32WaitNext)

\* ======================================================================
\* Claims
\* ======================================================================

\* The modifier key each mask stands for.
KeyOf(mask) ==
    CASE mask = "NSShiftKeyMask" -> "LShift"
      [] mask = "NSControlKeyMask" -> "LControl"
      [] mask = "NSCommandKeyMask" -> "LWin"
      [] mask = "NSAlternateKeyMask" -> "LAlt"

\* How many events of `evs` report `state` for the modifier of `mask`.
ModifierCount(evs, state, mask) ==
    Cardinality({i \in 1..Len(evs) :
        /\ evs[i].tag = "KeyboardInput"
        /\ evs[i].state = state
        /\ evs[i].key = KeyOf(mask)})

\* The events the last call made for its native event: the one it returned and
\* those it left at the end of the window's queue.
Surfaced ==
    IF last.emitted = <<>> THEN <<>>
    ELSE LET q == pending_events[last.window]
             n == Len(last.emitted) - 1
         IN  <<last.result>> \o SubSeq(q, Len(q) - n + 1, Len(q))

\* C1: translating a native flags-changed event yields exactly one Pressed for
\* each modifier whose flag went 0->1 since the previous snapshot, exactly one
\* Released for each 1->0 change, and nothing for an unchanged modifier; these
\* events are the one returned and the ones queued.
C1_ModifierTransitions ==
    last.nsevent.type = "NSFlagsChanged" =>
        /\ \A m \in ModifierMasks :
            /\ ModifierCount(last.emitted, "Pressed", m) =
                 (IF m \in last.nsevent.flags /\ m \notin last.snapshot THEN 1 ELSE 0)
            /\ ModifierCount(last.emitted, "Released", m) =
                 (IF m \notin last.nsevent.flags /\ m \in last.snapshot THEN 1 ELSE 0)
        /\ Len(last.emitted) =
             Cardinality((last.nsevent.flags \ last.snapshot)
                         \cup (last.snapshot \ last.nsevent.flags))
        /\ Surfaced = last.emitted

\* C1 witness: a second snapshot that presses one modifier, releases another
\* and leaves a third one held.
C1_Witness ==
    /\ last.nsevent.type = "NSFlagsChanged"
    /\ last.snapshot = {"NSShiftKeyMask", "NSAlternateKeyMask"}
    /\ last.nsevent.flags = {"NSShiftKeyMask", "NSControlKeyMask"}
    /\ Len(last.emitted) = 2

\* The native event the last call fetched is a proxy's wakeup event.
FetchedWakeup ==
    /\ last.nsevent.type = "NSApplicationDefined"
    /\ last.nsevent.subtype = "NSApplicationActivatedEventType"

\* C2: next() of wait_events never returns None, and it returns Awakened if and
\* only if the wait was ended by a proxy wakeup: a native event that maps to
\* no logical event does not surface as Awakened.
C2_AwakenedIffWakeup ==
    last.kind = "wait" =>
        /\ last.result # None
        /\ (last.result.tag = "Awakened" <=> FetchedWakeup)

\* C3: next() of poll_events can always complete (it never waits for the
\* native source); it returns None when it is called with the window's queue
\* and the native source both empty, it returns the queued event when it is
\* called with one, and when it returns None no event is queued for the window.
C3_PollNeverBlocks ==
    /\ (platform = "macos" /\ phase = "run" /\ waiting = 0)
         => \A w \in Windows : ENABLED PollNext(w)
    /\ last.kind = "poll" =>
        /\ (last.queued = <<>> /\ last.sourceEmpty) => last.result = None
        /\ last.queued # <<>> =>
             (last.result # None /\ last.result = Head(last.queued))
        /\ last.result = None => pending_events[last.window] = <<>>

\* C4: of the events of one native event the first is returned and the rest
\* are appended to the window's queue; a call made with a queued event returns
\* that event and fetches no native event; the events of one native event are
\* delivered in the order they were generated.
C4_SplitOrder ==
    /\ Surfaced = last.emitted
    /\ (last.kind # "none" /\ last.queued # <<>>) =>
         (last.nsevent = nil /\ last.result = Head(last.queued))
    /\ (last.kind # "none" /\ last.nsevent # nil) => last.queued = <<>>
    /\ \A w \in Windows : \A i, j \in 1..Len(delivered[w]) :
         (i < j /\ delivered[w][i].src = delivered[w][j].src
            /\ delivered[w][i].idx > 0 /\ delivered[w][j].idx > 0)
         => delivered[w][i].idx < delivered[w][j].idx

\* C4 witness: a key-down with two characters delivered whole, as three events,
\* the last of them taken from the queue.
C4_Witness ==
    \E w \in Windows :
        /\ Len(delivered[w]) = 3
        /\ \A i \in 1..3 : delivered[w][i].src = delivered[w][1].src
                           /\ delivered[w][i].idx = i
        /\ delivered[w][3].tag = "KeyboardInput"
        /\ last.queued # <<>>

\* The construction call has ended, by a return or by a panic.
ConstructionEnded == caller \in {"returned", "panicked"}

\* C5: in every call of new_window the spawned thread sends exactly one value,
\* Ok(Window) when init succeeded and Err when it failed, and the caller
\* returns exactly that value, after the thread finished init and sent it.
C5_OneShotHandoff ==
    platform = "windows" =>
        /\ sent <= 1
        /\ worker # "panicked"
        /\ worker \in {"loop", "done"} => sent = 1
        /\ caller = "returned" =>
             /\ sent = 1
             /\ worker \in {"loop", "done"}
             /\ returned = [tag |-> built.outcome, value |-> built.value]
        /\ caller = "panicked" => worker = "none"

\* The request asks to share with a context of another variant: an EGL-backed
\* window or the OpenGL ES / EGL path on win32, any sharing on cocoa.
SharingMismatch ==
    \/ /\ platform = "windows"
       /\ \/ request.sharing = "Egl"
          \/ request.sharing # "None" /\ request.version = "SpecificGles" /\ request.egl
    \/ platform = "macos" /\ request.sharing # "None"

\* C6: a construction that asks to share with a context of another variant
\* ends with an Err returned to the caller: no thread panics and no window is
\* returned.
C6_SharingMismatchErrs ==
    SharingMismatch =>
        /\ caller # "panicked"
        /\ worker # "panicked"
        /\ caller = "returned" => returned.tag = "Err"

\* C7: a construction with robustness RobustNoResetNotification or
\* RobustLoseContextOnReset returns RobustnessNotSupported, no native call was
\* made before the rejection, and no native window exists afterwards.
C7_RobustnessRejectedFirst ==
    (request.robustness # "NotRobust" /\ ConstructionEnded) =>
        /\ caller = "returned"
        /\ returned = Err("RobustnessNotSupported")
        /\ built.calls = <<>>
        /\ built.hwnd = "none"

\* C8: a construction with a minimum or a maximum size set returns an Err on
\* every backend: it neither panics nor returns a window.
C8_SizeLimitsRejected ==
    ((request.min_dimensions \/ request.max_dimensions) /\ ConstructionEnded) =>
        /\ caller = "returned"
        /\ returned.tag = "Err"

\* C9: once the initializer has failed, it has run once and is not run again,
\* no x11 window creation is attempted, and every Window::new call returns
\* Err(NoBackendAvailable) with the recorded cause.
C9_FailureCached ==
    BACKEND.tag = "Error" =>
        /\ attempts = 1
        /\ once = "Complete"
        /\ x11_windows = 0
        /\ \A t \in Threads :
             (thread[t].pc = "idle" /\ thread[t].op = "Window::new")
             => thread[t].result = NoBackendAvailable(BACKEND.cause)

\* C9 witness: after a failed initialization three calls were made, and both
\* threads' last Window::new returned the error with the recorded cause.
C9_Witness ==
    /\ BACKEND = Backend("Error", 0, "XOpenDisplayFailed")
    /\ calls = MaxCalls
    /\ \A t \in Threads :
         /\ thread[t].pc = "idle"
         /\ thread[t].op = "Window::new"
         /\ thread[t].result = NoBackendAvailable("XOpenDisplayFailed")

\* C10: whatever the calls, the threads and the interleaving, the connection
\* attempt runs at most once, at most one thread is in the initializer, and
\* every caller reads the one value of BACKEND.
C10_ConnectionOnce ==
    /\ attempts <= 1
    /\ Cardinality({t \in Threads : thread[t].pc = "init"}) <= 1
    /\ observed \subseteq {BACKEND}
    /\ \A t \in Threads : thread[t].pc = "ready" => once = "Complete"

\* C10 witness: three calls from two threads, of different kinds, ended on the
\* one connection, made by one attempt.
C10_Witness ==
    /\ attempts = 1
    /\ calls = MaxCalls
    /\ observed = {Backend("X", 1, "none")}
    /\ thread[1] = [pc |-> "idle", op |-> "Window::new", result |-> Ok("X")]
    /\ thread[2].pc = "idle" /\ thread[2].op = "get_primary_monitor"

\* C12: when a construction returns an error, no native window it created is
\* left alive and the display mode is not left switched.
C12_ErrorsLeaveNothing ==
    (caller = "returned" /\ returned.tag = "Err") =>
        /\ built.hwnd # "alive"
        /\ built.display = "unchanged"

\* C13: every clone sends one retain and every drop one release to a native
\* object, the releases never exceed the references the wrappers own and equal
\* them once every wrapper is dropped; nil is sent neither message.
C13_RetainReleaseBalance ==
    \A h \in Handles :
        LET r == idrefs[h] IN
        /\ h = "nil" => (r.retains = 0 /\ r.releases = 0)
        /\ h # "nil" => (r.retains = r.clones + r.retained /\ r.releases = r.drops)
        /\ r.releases <= r.owned
        /\ (r.created /\ r.live = 0) => r.releases = r.owned

\* C13 witness: the object was wrapped, cloned twice and all three wrappers
\* dropped, and a nil wrapper was cloned and dropped.
C13_Witness ==
    /\ idrefs["object"].clones = 2
    /\ idrefs["object"].live = 0
    /\ idrefs["object"].releases = 3
    /\ idrefs["nil"].clones >= 1
    /\ idrefs["nil"].drops >= 1

\* The cocoa construction came to the creation of the pixel format.
ReachedPixelFormat ==
    /\ platform = "macos"
    /\ \E i \in 1..Len(built.calls) :
         built.calls[i] = "NSOpenGLPixelFormat::initWithAttributes"

\* C20: when no pixel format meets the requirements Window::new returns
\* NoAvailablePixelFormat, and when the context cannot be created against the
\* format found it returns NotSupported.
C20_PixelFormatErrors ==
    (ReachedPixelFormat /\ caller = "returned") =>
        /\ ~answers.pixelformat => returned = Err("NoAvailablePixelFormat")
        /\ (answers.pixelformat /\ ~answers.context) => returned = Err("NotSupported")

\* The calls of the drop that release handle h, by their place in the drop.
ReleasesOf(h) ==
    {i \in 1..Len(drops) :
        drops[i].handle = h
        /\ drops[i].call \in {"release", "DestroyWindow", "Context::drop", "ReleaseDC"}}

\* The place in the drop of the call that gives up the last reference to h.
FreedAt(h) ==
    IF ReleasesOf(h) = {} THEN 0
    ELSE CHOOSE i \in ReleasesOf(h) : \A j \in ReleasesOf(h) : j <= i

\* C11: when a Window is dropped, every reference it holds to the context, to
\* the drawing surface and to the native window is released exactly once, and
\* the context is given up first, then the surface, then the window.
C11_ReverseOrderRelease ==
    window_life = "dropped" =>
        /\ \A h \in {"context", "surface", "window"} :
             Cardinality(ReleasesOf(h)) = RefsHeld(h)
        /\ FreedAt("context") < FreedAt("surface")
        /\ FreedAt("surface") < FreedAt("window")

\* C14: a thread reads and writes WindowState only with the mutex held, and no
\* native call is made with the mutex held.
C14_NoNativeUnderLock ==
    /\ \A t \in Threads : cthread[t].pc \in {"locked", "attached"} => mutex.holder = t
    /\ under_lock = {}

\* C15: every set_cursor_state call returns Ok or Err, whatever the requested
\* and the current mode: none panics and none leaves the mutex poisoned.
C15_CursorStateReturns ==
    /\ ~mutex.poisoned
    /\ \A t \in Threads :
         cthread[t].op = "set_cursor_state" =>
            /\ cthread[t].pc # "panicked"
            /\ cthread[t].pc = "idle" => cthread[t].result.tag \in {"Ok", "Err"}

\* C18: the spawned thread is in its message loop only after it sent
\* Ok(Window); when init failed it sent the error and fetched no message; in
\* the loop every message fetched was dispatched and none was the quit
\* message; and it ended the loop right after it fetched the quit message.
C18_WorkerLoop ==
    platform = "windows" =>
        /\ worker = "loop" =>
             /\ sent = 1 /\ built.outcome = "Ok"
             /\ dispatched = fetched
             /\ \A i \in 1..Len(fetched) : fetched[i].name # "WM_QUIT"
        /\ built.outcome = "Err" => fetched = <<>>
        /\ (worker = "done" /\ built.outcome = "Err") => sent = 1
        /\ (worker = "done" /\ built.outcome = "Ok") =>
             /\ sent = 1
             /\ fetched # <<>>
             /\ Last(fetched).name = "WM_QUIT"
             /\ dispatched = Front(fetched)
             /\ \A i \in 1..Len(dispatched) : dispatched[i].name # "WM_QUIT"

\* C18 witness: the thread dispatched two messages, fetched the quit message
\* and ended.
C18_Witness ==
    /\ platform = "windows"
    /\ worker = "done"
    /\ built.outcome = "Ok"
    /\ Len(dispatched) = 2
    /\ Last(fetched).name = "WM_QUIT"

\* C19: a completed set_cursor(k) left the shape mapped from k, left the
\* capture mode and the creation attributes as they were, and changed nothing
\* when the shape was already the one mapped from k.
C19_SetCursorIdempotent ==
    \A t \in Threads :
        LET c == cthread[t] IN
        (c.op = "set_cursor" /\ c.pc = "idle") =>
            IF platform = "windows"
            THEN /\ c.after[1].cursor = cursor_id(c.arg)
                 /\ c.after[1].cursor_state = c.before[1].cursor_state
                 /\ c.after[1].attributes = c.before[1].attributes
                 /\ c.before[1].cursor = cursor_id(c.arg) => c.after = c.before
            ELSE /\ c.after[1] = cursor_name(c.arg)
                 /\ c.before[1] = cursor_name(c.arg) => c.after = c.before

\* C19 witness: with the cursor grabbed, set_cursor(VerticalText) is called a
\* second time: the I-beam and the capture mode stay.
C19_Witness ==
    /\ platform = "windows"
    /\ ops = MaxOps
    /\ cthread[1].op = "set_cursor" /\ cthread[1].pc = "idle"
    /\ cthread[1].arg = "VerticalText"
    /\ cthread[1].before[1].cursor = "IDC_IBEAM"
    /\ cthread[1].after[1] = [cursor |-> "IDC_IBEAM", cursor_state |-> "Grab",
                           attributes |-> Attributes]

\* C16: when next() returns Awakened for a proxy's wakeup, no genuine event
\* was available to it: none was left in the native queue (cocoa), none was
\* behind the wakeup in the events channel (win32).
C16_AwakenedOnlyWhenIdle ==
    /\ (last.kind \in {"poll", "wait"} /\ last.result.tag = "Awakened" /\ FetchedWakeup)
         => ~last.realLeft
    /\ (w32last.kind \in {"poll", "wait"} /\ w32last.result.tag = "Awakened")
         => \A i \in 1..Len(w32last.channel) : w32last.channel[i].tag = "Awakened"

\* A thread is blocked in next() of wait_events and a proxy's wakeup is on its
\* way to it: in the native queue (cocoa); in the window's message queue or,
\* dispatched, in the events channel (win32).
WakeupPending ==
    \/ /\ waiting # 0
       /\ \E i \in 1..Len(nsqueue) :
            nsqueue[i].type = WAKEUP_EVENT.type /\ nsqueue[i].subtype = WAKEUP_EVENT.subtype
    \/ /\ receiving
       /\ \/ \E i \in 1..Len(msgqueue) : msgqueue[i].name = "WAKEUP_MSG_ID"
          \/ \E i \in 1..Len(events_receiver) : events_receiver[i].tag = "Awakened"

\* C17: a next() of wait_events that is blocked when a proxy's wakeup is
\* posted to its window eventually returns.
C17_WakeupEndsWait == WakeupPending ~> (waiting = 0 /\ ~receiving)

\* C17 witness: a next() that was blocked has returned Awakened.
C17_Witness ==
    \/ last.kind = "wait" /\ last.blocked /\ last.result.tag = "Awakened" /\ FetchedWakeup
    \/ w32last.kind = "wait" /\ w32last.blocked /\ w32last.result.tag = "Awakened"

\* The stage of Window::new a native call belongs to: 1 backend acquisition,
\* 2 native window construction, 3 context creation, 4 registration with the
\* event delivery; 0 for the calls that undo a stage.
StageOf(call) ==
    CASE call \in {"RegisterClassExW", "NSApp"} -> 1
      [] call \in {"ChangeDisplaySettingsExW", "AdjustWindowRectEx", "CreateWindowExW",
                   "GetDC", "SetForegroundWindow", "initWithContentRect",
                   "NSView::init"} -> 2
      [] call \in {"EglContext::new", "WglContext::new",
                   "NSOpenGLPixelFormat::initWithAttributes",
                   "NSOpenGLContext::initWithFormat"} -> 3
      [] call \in {"CONTEXT_STASH", "setDelegate", "performSelector"} -> 4
      [] OTHER -> 0

\* Where the construction made its first call of stage s, 0 when it made none.
StageBegan(s) ==
    LET at == {i \in 1..Len(built.calls) : StageOf(built.calls[i]) = s}
    IN  IF at = {} THEN 0 ELSE CHOOSE i \in at : \A j \in at : i <= j

\* Whether the native calls of stage s all succeeded.
StageSucceeded(s) ==
    IF platform = "macos"
    THEN CASE s = 1 -> answers.app
           [] s = 2 -> answers.window /\ answers.view
           [] s = 3 -> answers.pixelformat /\ answers.context
    ELSE CASE s = 1 -> TRUE
           [] s = 2 -> answers.cds /\ answers.window /\ answers.dc
           [] s = 3 -> built.value = "Egl" \/ answers.wgl = "Ok"

FlagsEmitted(w, f, st) ==
    NSEventToEvent(w, NSEvent("NSFlagsChanged", f, 0, "none", "none", 0),
                   pending_events, st).emitted

\* C22: the translation of a flags-changed event for one window leaves what
\* every other window emits for any flags snapshot as it was before.
C22_ModifiersPerWindow ==
    (last.kind # "none" /\ last.nsevent.type = "NSFlagsChanged") =>
        \A w \in Windows \ {last.window} :
            \A f \in SUBSET ModifierMasks :
                FlagsEmitted(w, f, statics) = FlagsEmitted(w, f, last.before)

\* C23: the translation of a key-down with N characters generates N
\* ReceivedCharacter events, in character order, then one KeyboardInput
\* (Pressed), and returns the first of them: the KeyboardInput when N = 0.
C23_KeyDownEvents ==
    (last.kind # "none" /\ last.nsevent.type = "NSKeyDown") =>
        LET n == last.nsevent.nchars IN
        /\ Len(last.emitted) = n + 1
        /\ \A i \in 1..n :
             /\ last.emitted[i].tag = "ReceivedCharacter"
             /\ last.emitted[i].ch = i
        /\ last.emitted[n + 1].tag = "KeyboardInput"
        /\ last.emitted[n + 1].state = "Pressed"
        /\ last.result = last.emitted[1]
        /\ n = 0 => last.result.tag = "KeyboardInput"

\* C23 witness: a key-down with two characters was translated and its first
\* character returned.
C23_Witness ==
    /\ last.nsevent.type = "NSKeyDown"
    /\ last.nsevent.nchars = 2
    /\ last.result.tag = "ReceivedCharacter"
    /\ Len(last.emitted) = 3

\* C24: next() of poll_events returns None only when no genuine native event
\* was still waiting in the source: not for a native event that maps to no
\* logical event while another one waits behind it.
C24_PollEndsOnEmptySource ==
    (last.kind = "poll" /\ last.result = None) =>
        (last.nsevent = nil \/ ~last.realLeft)

\* C25: on every thread the current context is the one last made current there
\* by a successful make_current, so at most one context answers is_current
\* with true; is_current answers true for that context and false for every
\* other; swap_buffers and get_pixel_format leave it as it is.
C25_OneCurrentPerThread ==
    phase = "gl" =>
        /\ \A t \in Threads :
             /\ thread_current[t] = made[t]
             /\ Cardinality({c \in Contexts : is_current(thread_current, t, c)}) <= 1
        /\ gllast.op = "is_current" =>
             (gllast.result = "true" <=> made[gllast.thread] = gllast.ctx)
        /\ (gllast.op = "make_current" /\ gllast.result = "Ok") =>
             /\ is_current(thread_current, gllast.thread, gllast.ctx)
             /\ \A c \in Contexts \ {gllast.ctx} :
                  ~is_current(thread_current, gllast.thread, c)

\* C25 witness: a thread swapped the buffers of a context while another
\* context was current on it.
C25_Witness ==
    /\ phase = "gl"
    /\ gllast.op = "swap_buffers"
    /\ made[gllast.thread] # 0
    /\ made[gllast.thread] # gllast.ctx
    /\ is_current(thread_current, gllast.thread, made[gllast.thread])

\* The threads that fetched native events for window w: the spawned thread
\* alone (thread 0) on win32.
PumpThreads(w) ==
    IF platform = "windows"
    THEN IF fetched # <<>> THEN {0} ELSE {}
    ELSE pumped[w]

\* C26: no two threads ever fetch native events for the same window.
C26_OnePumpThread ==
    \A w \in Windows : Cardinality(PumpThreads(w)) <= 1

\* C27: a window built from attributes without dimensions is created 800 wide
\* and 600 high, and with a monitor on win32 that is also the display mode
\* asked for (on cocoa a window given a monitor takes the screen's frame).
C27_DefaultSize ==
    (phase = "new" /\ built.hwnd # "none" /\ request.dimensions = <<>>) =>
        /\ (platform = "windows" \/ ~request.monitor) => built.size = <<800, 600>>
        /\ built.mode # <<>> => built.mode = <<800, 600>>

\* C28: the translation of a scroll event generates one MouseWheel event, with
\* a PixelDelta exactly when the source reports precise deltas, and with the
\* phase Started for may-begin and began, Ended for ended, Moved otherwise.
C28_ScrollEvents ==
    (last.kind # "none" /\ last.nsevent.type = "NSScrollWheel") =>
        LET g == last.nsevent.gesture IN
        /\ Len(last.emitted) = 1
        /\ last.result = last.emitted[1]
        /\ last.result.tag = "MouseWheel"
        /\ last.result.delta = "PixelDelta" <=> last.nsevent.precise
        /\ last.result.delta = "LineDelta" <=> ~last.nsevent.precise
        /\ last.result.phase = "Started"
             <=> g \in {"NSEventPhaseMayBegin", "NSEventPhaseBegan"}
        /\ last.result.phase = "Ended" <=> g = "NSEventPhaseEnded"
        /\ last.result.phase = "Moved"
             <=> g \in {"NSEventPhaseNone", "NSEventPhaseChanged", "NSEventPhaseCancelled"}

\* C28 witness: a scroll event without phase information, with precise
\* deltas, was translated to MouseWheel(PixelDelta, Moved).
C28_Witness ==
    /\ last.nsevent.type = "NSScrollWheel"
    /\ last.nsevent.gesture = "NSEventPhaseNone"
    /\ last.nsevent.precise
    /\ last.result.tag = "MouseWheel"
    /\ last.result.phase = "Moved"

\* C29: every accessor called on a MonitorId that get_available_monitors or
\* get_primary_monitor returned answers with a value: none panics.
C29_MonitorAccessorsAnswer ==
    \A t \in Threads :
        thread[t].op \in Accessors =>
            /\ thread[t].pc # "panicked"
            /\ thread[t].result.tag = "Answer"

\* C30: when the backend failed, get_available_monitors returns the one
\* placeholder and get_primary_monitor returns it too; the placeholder has no
\* name and its dimensions are 800 by 600.
C30_PlaceholderMonitor ==
    BACKEND.tag = "Error" =>
        \A t \in Threads :
            LET r == thread[t].result IN
            /\ (thread[t].pc = "idle" /\ thread[t].op = "get_available_monitors")
                 => r.value = <<"None">>
            /\ (thread[t].pc = "idle" /\ thread[t].op = "get_primary_monitor")
                 => r.value = "None"
            /\ thread[t].op \in Accessors => r.of = "None"
            /\ thread[t].op = "get_name" => r.value = "None"
            /\ thread[t].op = "get_dimensions" => (r.width = 800 /\ r.height = 600)

\* C30 witness: with the backend failed, one thread got the placeholder from
\* get_available_monitors and asked its dimensions, the other got it from
\* get_primary_monitor.
C30_Witness ==
    /\ BACKEND.tag = "Error"
    /\ thread[1].pc = "idle" /\ thread[1].op = "get_dimensions"
    /\ thread[1].result.of = "None" /\ thread[1].result.width = 800
    /\ thread[2].pc = "idle" /\ thread[2].op = "get_primary_monitor"
    /\ thread[2].result.value = "None"

\* Event `a` was generated before event `b` for one window: it comes from an
\* earlier native event, or from the same one and either it is a callback's
\* (enqueued while the native event was dispatched, before its translation)
\* or it has the lower rank in the translation.
GeneratedBefore(a, b) ==
    \/ a.src < b.src
    \/ a.src = b.src /\ a.idx < b.idx

\* C31: for one window next() returns events in the order they were generated,
\* callback events (Closed, Focused) included: the event translated from a
\* native event is never returned ahead of a callback event enqueued while
\* that native event was dispatched, and the events split from one native
\* event are never separated by a callback event.
C31_GenerationOrder ==
    \A w \in Windows : \A i, j \in 1..Len(delivered[w]) :
        (i < j /\ delivered[w][i].src # 0 /\ delivered[w][j].src # 0)
            => ~GeneratedBefore(delivered[w][j], delivered[w][i])

\* The DestroyWindow calls made by the drop of the Window.
Destroyed == {i \in 1..Len(drops) : drops[i].call = "DestroyWindow"}

\* C32: after a Window created by new_window is dropped, the message loop of
\* its worker thread eventually ends, and the native window is destroyed
\* exactly once.
C32_DropEndsWorker ==
    /\ []((platform = "windows" /\ window_life = "dropped") => Cardinality(Destroyed) = 1)
    /\ ((platform = "windows" /\ window_life = "dropped") ~> (worker = "done"))

\* C32 witness: the Window was dropped while the worker ran its loop; the
\* worker dispatched the WM_DESTROY of the drop, fetched the quit message and
\* left its loop.
C32_Witness ==
    /\ platform = "windows" /\ window_life = "dropped"
    /\ Cardinality(Destroyed) = 1
    /\ \E i \in 1..Len(dispatched) : dispatched[i] = Message("WM_DESTROY", 0)
    /\ Last(fetched).name = "WM_QUIT"
    /\ worker = "done"

\* The positions of `seq` that hold the Closed event of the native event `id`.
ClosedOf(seq, id) == {i \in 1..Len(seq) : seq[i] = Closed(id)}

\* The close request that the last next() call (cocoa) dispatched left exactly
\* one Closed event, in the queue of the window it is addressed to.
OneClosedEnqueued ==
    (last.kind # "none" /\ last.nsevent.cb = "windowShouldClose") =>
        \A w \in Windows :
            /\ Cardinality(ClosedOf(pending_events[w], last.nsevent.id))
                 = (IF w = last.nsevent.win THEN 1 ELSE 0)
            /\ ClosedOf(delivered[w], last.nsevent.id) = {}

\* A queued Closed event leaves the window's queue only by being returned by
\* next(), and it is never returned twice.
ClosedReturned ==
    \A w \in Windows :
        /\ \A i \in 1..Len(pending_events[w]) :
            LET ev == pending_events[w][i] IN
            ev.tag = "Closed" =>
                \/ ClosedOf(pending_events'[w], ev.src) # {}
                \/ (i = 1 /\ delivered'[w] = Append(delivered[w], ev))
        /\ \A i \in 1..Len(delivered'[w]) :
            delivered'[w][i].tag = "Closed" =>
                Cardinality(ClosedOf(delivered'[w], delivered'[w][i].src)) = 1

C34_CursorStateAtomic ==
    \A t \in Threads :
        (cthread[t].op = "set_cursor_state" /\ cthread[t].after # <<>>) =>
            LET b == cthread[t].before[1]
                a == cthread[t].after[1]
                r == cthread[t].result
            IN  /\ r.tag = "Ok" => a.cursor_state = cthread[t].arg
                /\ r.tag = "Err" => a.cursor_state = b.cursor_state
                /\ r.tag \in {"Ok", "Err"} =>
                     (a.cursor = b.cursor /\ a.attributes = b.attributes)
                /\ b.cursor_state = cthread[t].arg => (r.tag = "Ok" /\ a = b)

\* C34 witness: one thread's call failed at ClipCursor and left the mode it
\* found, and the other thread's call found the mode it asked for.
C34_Witness ==
    \E t, u \in Threads :
        /\ t # u
        /\ cthread[t].op = "set_cursor_state" /\ cthread[t].after # <<>>
        /\ cthread[t].result = Err("ClipCursor failed")
        /\ cthread[t].after = cthread[t].before
        /\ cthread[u].op = "set_cursor_state" /\ cthread[u].after # <<>>
        /\ cthread[u].before[1].cursor_state = cthread[u].arg
        /\ cthread[u].result.tag = "Ok"

\* C35: a set_cursor_state call that attached the calling thread's input to
\* the window's thread detached it again before it returned: once every call
\* has returned (or has not attached yet) no attachment is left.
C35_DetachedOnReturn ==
    (\A t \in Threads : cthread[t].pc \in {"idle", "lock", "locked"}) => attached = 0

\* One step of the events channel (win32): it is left alone, or the worker,
\* in its loop, sends one event that joins the back, or next() takes the event
\* at the front and returns it.
ChannelStep ==
    \/ events_receiver' = events_receiver
    \/ /\ worker = "loop"
       /\ Len(events_receiver') = Len(events_receiver) + 1
       /\ SubSeq(events_receiver', 1, Len(events_receiver)) = events_receiver
       /\ \A i \in 1..Len(events_receiver) : events_receiver[i] # Last(events_receiver')
    \/ /\ events_receiver # <<>>
       /\ events_receiver' = Tail(events_receiver)
       /\ w32last'.kind \in {"poll", "wait"}
       /\ w32last'.result = Head(events_receiver)

\* next() of wait_events returned None only with the channel drained and the
\* worker out of its loop, and in that situation it returns instead of blocking.
WaitEndsWhenDrained ==
    /\ (w32last.kind = "wait" /\ w32last.result = None) =>
            (w32last.channel = <<>> /\ worker # "loop")
    /\ (platform = "windows" /\ phase = "run" /\ window_life = "alive"
            /\ events_receiver = <<>> /\ worker # "loop") =>
            (ENABLED Win32WaitNext /\ ~ENABLED Win32WaitBlock)

\* C36: on the worker-thread backend every event the worker sent before its
\* loop ended is delivered exactly once and in send order by later
\* poll_events/wait_events calls, and next() of wait_events returns None
\* instead of blocking only after the channel is drained and the worker's
\* sender is gone.
C36_ChannelDelivery ==
    /\ [][ChannelStep]_vars
    /\ []WaitEndsWhenDrained

\* C36 witness: the worker dispatched a key-down and sent its event, then left
\* its loop; the event was taken from the channel, and next() of wait_events,
\* called on the drained channel, returned None.
C36_Witness ==
    /\ platform = "windows" /\ worker = "done"
    /\ \E i \in 1..Len(dispatched) : dispatched[i].name = "WM_KEYDOWN"
    /\ events_receiver = <<>>
    /\ w32last.kind = "wait" /\ w32last.result = None /\ w32last.channel = <<>>

\* How many times `call` was made by the construction.
CallsOf(call) == Cardinality({i \in 1..Len(built.calls) : built.calls[i] = call})

\* init (win32) came to the creation of the context: the window and its
\* device context exist.
ReachedContext ==
    /\ platform = "windows" /\ built.outcome # "none"
    /\ CallsOf("GetDC") = 1 /\ answers.dc

\* The window was built with an EGL context.
GotEgl == built.outcome = "Ok" /\ built.value = "Egl"

\* C37: in init an EGL context is attempted only when a specific OpenGL ES
\* version is requested and an EGL library was supplied; the window gets the
\* EGL context iff that attempt succeeds; in every other case exactly one WGL
\* context creation is attempted, and its error, if any, is the error of the
\* construction.
C37_ContextFallback ==
    ReachedContext =>
        /\ CallsOf("EglContext::new") <= 1
        /\ CallsOf("EglContext::new") = 1 =>
             (request.version = "SpecificGles" /\ request.egl)
        /\ GotEgl <=> (CallsOf("EglContext::new") = 1 /\ answers.egl)
        /\ ~GotEgl =>
             /\ CallsOf("WglContext::new") = 1
             /\ IF answers.wgl = "Ok"
                THEN built.outcome = "Ok" /\ built.value = "Wgl"
                ELSE built.outcome = "Err" /\ built.value = answers.wgl

\* C38: an event that next() of a window's iterator returned after translating
\* a native event belongs to that window: a native event addressed to one
\* window is never fetched, translated and returned by the iterator of the
\* other.
C38_EventsOfOwnWindow ==
    (/\ last.kind # "none"
     /\ last.nsevent.win \in Windows
     /\ last.result # None
     /\ last.result.src = last.nsevent.id /\ last.result.idx >= 1)
        => last.window = last.nsevent.win

\* C39: an X error reported through x_error_callback while BACKEND is being
\* initialized neither deadlocks nor re-enters the initialization; and once
\* the backend is the X variant, each callback stores its error in
\* latest_error, overwriting the previous one, and returns 0.
C39_ErrorCallback ==
    /\ \A t \in Threads : thread[t].pc \notin {"deadlocked", "callback_panicked"}
    /\ attempts <= 1
    /\ (xlast.returned /\ BACKEND.tag = "X") =>
            (xlast.ret = 0 /\ latest_error = xlast.code)

====
